---- MODULE Spec2Model ----
(***************************************************************************)
(* A model of the whiteboard editor: the zustand scene store               *)
(* (stores/whiteboardStore.ts), the select tool's gesture state machine    *)
(* (tools/SelectTool.ts), the drawing tools, the Canvas component that     *)
(* dispatches pointer and key events to the active tool, and the keyboard  *)
(* shortcuts that switch tools.                                            *)
(*                                                                         *)
(* Numbers.  World coordinates are integers.  Where the code halves a      *)
(* width or height (centres, edge-midpoint handles) the model compares     *)
(* doubled coordinates, and where it takes a square root (distances) it    *)
(* compares squares, so every comparison is exact.  Rotations are counted  *)
(* in quarter turns (1 = PI/2 radians), for which cos and sin are exact;   *)
(* floating-point rounding is not modelled.                                *)
(***************************************************************************)
EXTENDS Integers, Sequences, FiniteSets, TLC

VARIABLES
    \* ---- useWhiteboardStore (stores/whiteboardStore.ts)
    elements,            \* Map id -> element: a function on the ids present
    elementOrder,        \* string[]: the z-order list
    selectedElementIds,  \* Set<string>, in insertion order (a JS Set iterates so)
    hoveredElementId,    \* id or NoId
    activeTool,          \* ToolType
    viewport,            \* [zoom, panX, panY], each a fraction [n, d]
    \* ---- SelectTool's private fields (tools/SelectTool.ts 24-29)
    transformMode,       \* "move" | "resize" | "rotate" | "drag-select" | "null"
    activeHandle,        \* a handle name or "null"
    dragStartPoint,      \* a point or NoPoint
    dragCurrentPoint,    \* a point or NoPoint
    elementStartBounds,  \* Map id -> bounds at pointer-down
    \* ---- the drawing tools' private fields
    arrowTool,           \* [isDrawing, startPoint, previewElementId]
    ellipseTool,         \* [isDrawing, startPoint, previewElementId]
    penTool,             \* [isDrawing, points, previewElementId]
    textTool,            \* [clickedPoint]
    \* ---- the environment
    pointerIsDown,       \* the pointer's button is held over the canvas
    gestures,            \* pointer-downs so far (bounded by MaxGestures)
    downElements,        \* history: the elements map as the last pointer-down found it
    downTool,            \* history: the activeTool of the last pointer-down, "null" once released
    wheels,              \* wheel events so far (bounded by MaxWheels)
    isPanning,           \* the store's isPanning flag (set by useViewport)
    lastPanPosition,     \* useViewport's lastPanPosition ref: a screen point or NoPoint
    nextId,              \* nanoid(): the next fresh id
    \* ---- Canvas (components/Canvas) and its DirtyRectManager (lib/dirty-rect.ts)
    dirty,               \* [dirtyRegions, isDirty, fullRedrawNeeded]
    rendered,            \* the store values Canvas last rendered with, which its
                         \* render callback closes over; NotRendered before the mount
    effects,             \* "init" while the effect that calls handleResize is due
    surface,             \* [calls, painted, overlay]: the context calls of the last
                         \* render() and what the canvas shows
    \* ---- a pure function applied on its own
    args,                \* the arguments of the call
    result               \* its result; <<>> before the call

storeVars  == <<elements, elementOrder, selectedElementIds, hoveredElementId, activeTool,
               viewport>>
selectVars == <<transformMode, activeHandle, dragStartPoint, dragCurrentPoint, elementStartBounds>>
drawVars   == <<arrowTool, ellipseTool, penTool, textTool>>
envVars    == <<pointerIsDown, gestures, downElements, downTool, wheels, isPanning,
               lastPanPosition, nextId>>
callVars   == <<args, result>>
renderVars == <<dirty, rendered, effects, surface>>
vars       == <<storeVars, selectVars, drawVars, envVars, callVars, renderVars>>

(***************************************************************************)
(* Bounds of the model                                                     *)
(***************************************************************************)
\* pointer gestures (pointer-downs) in one behaviour
MaxGestures == 1
\* ids the store API is called with in SpecStore
MaxIds == 3
\* cap on the length of elementOrder in SpecStore
MaxOrderLen == 4
\* points a pen stroke collects
MaxPenPoints == 3
\* largest width or height a resize gives an element
MaxExtent == 150

NoId == 0
NoPoint == [none |-> TRUE]
Pt(px, py) == [x |-> px, y |-> py]

\* The pointer positions of the model, in world units (the viewport is the
\* default one, zoom 1 and pan 0, so screen and world coordinates agree).
Points ==
    { Pt(30, 30), Pt(60, 60), Pt(60, 30), Pt(30, 0 - 30), Pt(75, 75),
      Pt(90, 90), Pt(0, 90), Pt(68, 66), Pt(69, 66) }

Range(s) == { s[i] : i \in DOMAIN s }
Abs(n) == IF n < 0 THEN 0 - n ELSE n
Min(a, b) == IF a < b THEN a ELSE b
Max(a, b) == IF a > b THEN a ELSE b
EmptyMap == [i \in {} |-> 0]

\* Array.prototype.filter on a sequence of ids
RECURSIVE FilterSeq(_, _)
FilterSeq(s, keep) ==
    IF s = <<>> THEN <<>>
    ELSE IF Head(s) \in keep THEN <<Head(s)>> \o FilterSeq(Tail(s), keep)
    ELSE FilterSeq(Tail(s), keep)

\* new Set(array): the array's ids in order, later duplicates dropped
RECURSIVE SetOf(_)
SetOf(s) ==
    IF s = <<>> THEN <<>>
    ELSE LET init == SetOf(SubSeq(s, 1, Len(s) - 1))
         IN IF s[Len(s)] \in Range(init) THEN init ELSE Append(init, s[Len(s)])

\* Array.prototype.indexOf, 1-based, 0 for "not found" (-1 in the code)
IndexOf(s, id) ==
    IF id \in Range(s) THEN CHOOSE i \in DOMAIN s : s[i] = id /\ \A j \in 1..(i - 1) : s[j] # id
    ELSE 0

\* { ...element, ...updates }
Merge(e, u) == [f \in (DOMAIN e) \cup (DOMAIN u) |-> IF f \in DOMAIN u THEN u[f] ELSE e[f]]

(***************************************************************************)
(* Fractions.  The viewport's numbers are fractions [n, d] with d > 0 in   *)
(* lowest terms, so that zooming by a factor and dividing by the zoom are  *)
(* computed as the code computes them, without rounding.                   *)
(***************************************************************************)
RECURSIVE Gcd(_, _)
Gcd(a, b) == IF b = 0 THEN a ELSE Gcd(b, a % b)

Q(n, d) ==
    LET g == Gcd(Abs(n), Abs(d))
        sign == IF d < 0 THEN 0 - 1 ELSE 1
    IN [n |-> sign * (n \div g), d |-> sign * (d \div g)]
QInt(n) == [n |-> n, d |-> 1]
\* common factors are cancelled before multiplying, to keep the products small
QAdd(a, b) ==
    LET g == Gcd(a.d, b.d)
    IN Q(a.n * (b.d \div g) + b.n * (a.d \div g), (a.d \div g) * b.d)
QSub(a, b) == QAdd(a, [n |-> 0 - b.n, d |-> b.d])
QMul(a, b) ==
    LET g1 == Gcd(Abs(a.n), b.d)
        g2 == Gcd(Abs(b.n), a.d)
    IN Q((a.n \div g1) * (b.n \div g2), (a.d \div g2) * (b.d \div g1))
QDiv(a, b) == QMul(a, IF b.n < 0 THEN [n |-> 0 - b.d, d |-> 0 - b.n]
                                 ELSE [n |-> b.d, d |-> b.n])
QLess(a, b) ==
    LET g == Gcd(a.d, b.d)
    IN a.n * (b.d \div g) < b.n * (a.d \div g)
QMin(a, b) == IF QLess(b, a) THEN b ELSE a
QMax(a, b) == IF QLess(a, b) THEN b ELSE a

\* DEFAULT_VIEWPORT
DefaultViewport == [zoom |-> QInt(1), panX |-> QInt(0), panY |-> QInt(0)]

(***************************************************************************)
(* The store: each operation maps the state to the next state              *)
(***************************************************************************)
Store ==
    [elements |-> elements, elementOrder |-> elementOrder,
     selectedElementIds |-> selectedElementIds,
     hoveredElementId |-> hoveredElementId, activeTool |-> activeTool,
     viewport |-> viewport]

SetStore(st) ==
    /\ elements' = st.elements
    /\ elementOrder' = st.elementOrder
    /\ selectedElementIds' = st.selectedElementIds
    /\ hoveredElementId' = st.hoveredElementId
    /\ activeTool' = st.activeTool
    /\ viewport' = st.viewport

MapSet(m, k, v) == [i \in (DOMAIN m) \cup {k} |-> IF i = k THEN v ELSE m[i]]
MapDelete(m, ks) == [i \in (DOMAIN m) \ ks |-> m[i]]

AddElement(st, element) ==
    [st EXCEPT !.elements = MapSet(st.elements, element.id, element),
               !.elementOrder = Append(st.elementOrder, element.id)]

UpdateElementUpsert(st, id, updates) ==
    IF id \notin DOMAIN st.elements
    THEN [st EXCEPT !.elements = MapSet(st.elements, id, updates)]
    ELSE [st EXCEPT !.elements = MapSet(st.elements, id, Merge(st.elements[id], updates))]
UpdateElement(st, id, updates) ==
    IF id \notin DOMAIN st.elements THEN st
    ELSE [st EXCEPT !.elements = MapSet(st.elements, id, Merge(st.elements[id], updates))]

DeleteElement(st, id) ==
    [st EXCEPT !.elements = MapDelete(st.elements, {id}),
               !.elementOrder = FilterSeq(st.elementOrder, Range(st.elementOrder) \ {id}),
               !.selectedElementIds =
                   FilterSeq(st.selectedElementIds, Range(st.selectedElementIds) \ {id})]

DeleteElementsKeepingSelection(st, ids) ==
    [st EXCEPT !.elements = MapDelete(st.elements, Range(ids)),
               !.elementOrder = FilterSeq(st.elementOrder, Range(st.elementOrder) \ Range(ids))]
DeleteElements(st, ids) ==
    [st EXCEPT !.elements = MapDelete(st.elements, Range(ids)),
               !.elementOrder = FilterSeq(st.elementOrder, Range(st.elementOrder) \ Range(ids)),
               !.selectedElementIds =
                   FilterSeq(st.selectedElementIds, Range(st.selectedElementIds) \ Range(ids))]

ClearElements(st) ==
    [st EXCEPT !.elements = EmptyMap, !.elementOrder = <<>>, !.selectedElementIds = <<>>]

SelectElement(st, id) == [st EXCEPT !.selectedElementIds = <<id>>]

SelectElements(st, ids) == [st EXCEPT !.selectedElementIds = SetOf(ids)]

AddToSelection(st, id) ==
    [st EXCEPT !.selectedElementIds = SetOf(Append(st.selectedElementIds, id))]

ClearSelection(st) == [st EXCEPT !.selectedElementIds = <<>>]

SetHoveredElement(st, id) == [st EXCEPT !.hoveredElementId = id]

SetActiveTool(st, tool) == [st EXCEPT !.activeTool = tool]

MinZoom == Q(1, 10)
MaxZoom == QInt(10)

\* zoom: Math.max(0.1, Math.min(10, zoom)), the rest of the viewport kept
SetZoomUnclamped(st, zoom) == [st EXCEPT !.viewport.zoom = zoom]
SetZoom(st, zoom) == [st EXCEPT !.viewport.zoom = QMax(MinZoom, QMin(MaxZoom, zoom))]

SetPan(st, panX, panY) == [st EXCEPT !.viewport.panX = panX, !.viewport.panY = panY]

ResetViewport(st) == [st EXCEPT !.viewport = DefaultViewport]

BringToFront(st, id) ==
    LET currentIndex == IndexOf(st.elementOrder, id)
    IN IF currentIndex = 0 \/ currentIndex = Len(st.elementOrder) THEN st
       ELSE [st EXCEPT !.elementOrder =
                 Append(FilterSeq(st.elementOrder, Range(st.elementOrder) \ {id}), id)]

SendToBack(st, id) ==
    LET currentIndex == IndexOf(st.elementOrder, id)
    IN IF currentIndex = 0 \/ currentIndex = 1 THEN st
       ELSE [st EXCEPT !.elementOrder =
                 <<id>> \o FilterSeq(st.elementOrder, Range(st.elementOrder) \ {id})]

Swap(s, i, j) == [k \in DOMAIN s |-> IF k = i THEN s[j] ELSE IF k = j THEN s[i] ELSE s[k]]

BringForward(st, id) ==
    LET currentIndex == IndexOf(st.elementOrder, id)
    IN IF currentIndex = 0 \/ currentIndex = Len(st.elementOrder) THEN st
       ELSE [st EXCEPT !.elementOrder = Swap(st.elementOrder, currentIndex, currentIndex + 1)]

SendBackward(st, id) ==
    LET currentIndex == IndexOf(st.elementOrder, id)
    IN IF currentIndex = 0 \/ currentIndex = 1 THEN st
       ELSE [st EXCEPT !.elementOrder = Swap(st.elementOrder, currentIndex, currentIndex - 1)]

(***************************************************************************)
(* Element factories (utils/element-factory.ts); style and zIndex, which   *)
(* no modelled operation reads, are left out                               *)
(***************************************************************************)
CreateRectangle(id, x, y, width, height) ==
    [id |-> id, type |-> "rectangle", x |-> x, y |-> y, width |-> width, height |-> height,
     rotation |-> 0, locked |-> FALSE, isDeleted |-> FALSE]

CreateEllipse(id, x, y, width, height) ==
    [id |-> id, type |-> "ellipse", x |-> x, y |-> y, width |-> width, height |-> height,
     rotation |-> 0, locked |-> FALSE, isDeleted |-> FALSE]

CreateLine(id, startX, startY, endX, endY) ==
    [id |-> id, type |-> "line",
     x |-> Min(startX, endX), y |-> Min(startY, endY),
     width |-> Abs(endX - startX), height |-> Abs(endY - startY),
     startX |-> startX, startY |-> startY, endX |-> endX, endY |-> endY,
     rotation |-> 0, locked |-> FALSE, isDeleted |-> FALSE]

CreateArrow(id, startX, startY, endX, endY) ==
    [id |-> id, type |-> "arrow",
     x |-> Min(startX, endX), y |-> Min(startY, endY),
     width |-> Abs(endX - startX), height |-> Abs(endY - startY),
     startX |-> startX, startY |-> startY, endX |-> endX, endY |-> endY,
     rotation |-> 0, locked |-> FALSE, isDeleted |-> FALSE]

SeqMin(s) == CHOOSE m \in Range(s) : \A n \in Range(s) : m <= n
SeqMax(s) == CHOOSE m \in Range(s) : \A n \in Range(s) : m >= n
Xs(points) == [i \in DOMAIN points |-> points[i][1]]
Ys(points) == [i \in DOMAIN points |-> points[i][2]]

CreateFreedraw(id, points) ==
    IF Len(points) = 0
    THEN [id |-> id, type |-> "freedraw", x |-> 0, y |-> 0, width |-> 0, height |-> 0,
          points |-> <<>>, rotation |-> 0, locked |-> FALSE, isDeleted |-> FALSE]
    ELSE [id |-> id, type |-> "freedraw",
          x |-> SeqMin(Xs(points)), y |-> SeqMin(Ys(points)),
          width |-> SeqMax(Xs(points)) - SeqMin(Xs(points)),
          height |-> SeqMax(Ys(points)) - SeqMin(Ys(points)),
          points |-> points, rotation |-> 0, locked |-> FALSE, isDeleted |-> FALSE]

\* createText(x, y, 'Text', 16, ...): width = max(100, 4 * 16 * 0.6) = 100,
\* height = 16 * 1.5 = 24
TextWidth == 100
TextHeight == 24
CreateText(id, x, y) ==
    [id |-> id, type |-> "text", x |-> x, y |-> y, width |-> TextWidth, height |-> TextHeight,
     rotation |-> 0, locked |-> FALSE, isDeleted |-> FALSE]

(***************************************************************************)
(* Geometry (utils/geometry.ts, lib/canvas-utils.ts)                       *)
(***************************************************************************)
\* cos and sin of q quarter turns
CosQ(q) == CASE q % 4 = 0 -> 1 [] q % 4 = 1 -> 0 [] q % 4 = 2 -> 0 - 1 [] OTHER -> 0
SinQ(q) == CASE q % 4 = 0 -> 0 [] q % 4 = 1 -> 1 [] q % 4 = 2 -> 0 [] OTHER -> 0 - 1

\* getElementCenter, doubled: (2x + width, 2y + height)
ElementCenter2(element) ==
    [x |-> 2 * element.x + element.width, y |-> 2 * element.y + element.height]

\* rotatePoint(point, center, angle), on doubled coordinates
RotatePoint2(point2, center2, q) ==
    LET dx == point2.x - center2.x
        dy == point2.y - center2.y
    IN [x |-> dx * CosQ(q) - dy * SinQ(q) + center2.x,
        y |-> dx * SinQ(q) + dy * CosQ(q) + center2.y]

IsPointInBounds(point, element, padding) ==
    /\ point.x >= element.x - padding
    /\ point.x <= element.x + element.width + padding
    /\ point.y >= element.y - padding
    /\ point.y <= element.y + element.height + padding

\* a variant of isPointInRectangle that turns the point about the origin
IsPointInRectangleAboutOrigin(point, element, padding) ==
    IF element.rotation = 0
    THEN /\ point.x >= element.x - padding
         /\ point.x <= element.x + element.width + padding
         /\ point.y >= element.y - padding
         /\ point.y <= element.y + element.height + padding
    ELSE LET cos == CosQ(0 - element.rotation)
             sin == SinQ(0 - element.rotation)
             localX == 2 * point.x * cos - 2 * point.y * sin
             localY == 2 * point.x * sin + 2 * point.y * cos
         IN /\ localX >= 2 * (element.x - padding)
            /\ localX <= 2 * (element.x + element.width + padding)
            /\ localY >= 2 * (element.y - padding)
            /\ localY <= 2 * (element.y + element.height + padding)
IsPointInRectangle(point, element, padding) ==
    IF element.rotation = 0
    THEN /\ point.x >= element.x - padding
         /\ point.x <= element.x + element.width + padding
         /\ point.y >= element.y - padding
         /\ point.y <= element.y + element.height + padding
    ELSE LET c == ElementCenter2(element)
             cos == CosQ(0 - element.rotation)
             sin == SinQ(0 - element.rotation)
             dx == 2 * point.x - c.x
             dy == 2 * point.y - c.y
             localX == dx * cos - dy * sin + c.x
             localY == dx * sin + dy * cos + c.y
         IN /\ localX >= 2 * (element.x - padding)
            /\ localX <= 2 * (element.x + element.width + padding)
            /\ localY >= 2 * (element.y - padding)
            /\ localY <= 2 * (element.y + element.height + padding)

\* dx^2/rx^2 + dy^2/ry^2 <= 1 with rx = width/2 + padding, ry = height/2 + padding,
\* multiplied through by the (doubled) radii; a zero radius makes the quotient
\* NaN or Infinity in the code, and the comparison false.  A point further from
\* the centre than a radius along one axis is outside: testing that first keeps
\* the products small.
IsPointInEllipse(point, element, padding) ==
    LET c == ElementCenter2(element)
        rx == element.width + 2 * padding
        ry == element.height + 2 * padding
        dx == 2 * point.x - c.x
        dy == 2 * point.y - c.y
    IN /\ rx # 0
       /\ ry # 0
       /\ Abs(dx) <= Abs(rx)
       /\ Abs(dy) <= Abs(ry)
       /\ dx * dx * ry * ry + dy * dy * rx * rx <= rx * rx * ry * ry

\* distanceToLine(point, lineStart, lineEnd) <= threshold.  The code projects the
\* point on the line with param = dot/lenSq; when the foot lies within the
\* segment the squared distance to it is (A*D - B*C)^2 / lenSq.
IsPointNearLine(point, lineStart, lineEnd, threshold) ==
    LET A == point.x - lineStart.x
        B == point.y - lineStart.y
        C == lineEnd.x - lineStart.x
        D == lineEnd.y - lineStart.y
        dot == A * C + B * D
        lenSq == C * C + D * D
    IN IF lenSq = 0 \/ dot < 0
       THEN A * A + B * B <= threshold * threshold
       ELSE IF dot > lenSq
       THEN (point.x - lineEnd.x) * (point.x - lineEnd.x)
              + (point.y - lineEnd.y) * (point.y - lineEnd.y) <= threshold * threshold
       ELSE (A * D - B * C) * (A * D - B * C) <= threshold * threshold * lenSq

IsPointInFreedrawPath(point, element, threshold) ==
    /\ Len(element.points) >= 2
    /\ \E i \in 1..(Len(element.points) - 1) :
          IsPointNearLine(point,
                          Pt(element.points[i][1], element.points[i][2]),
                          Pt(element.points[i + 1][1], element.points[i + 1][2]),
                          threshold)

HitTestElement(point, element, threshold) ==
    IF ~IsPointInBounds(point, element, threshold) THEN FALSE
    ELSE CASE element.type = "rectangle" -> IsPointInRectangle(point, element, threshold)
           [] element.type = "ellipse" -> IsPointInEllipse(point, element, threshold)
           [] element.type \in {"line", "arrow"} ->
                  IF {"startX", "startY", "endX", "endY"} \subseteq DOMAIN element
                  THEN IsPointNearLine(point, Pt(element.startX, element.startY),
                                       Pt(element.endX, element.endY), threshold)
                  ELSE FALSE
           [] element.type = "freedraw" ->
                  IF "points" \in DOMAIN element
                  THEN IsPointInFreedrawPath(point, element, threshold)
                  ELSE FALSE
           [] element.type = "text" -> IsPointInRectangle(point, element, 0)
           [] OTHER -> FALSE

(***************************************************************************)
(* SelectTool (tools/SelectTool.ts): the pure parts                        *)
(***************************************************************************)
\* new SelectTool(): threshold = options.threshold ?? 5
Threshold == 5
\* findHandleAtPoint's default handleSize
HandleSize == 8
\* the rotation handle sits 30 world units above the top edge
RotationHandleOffset == 30

HandleTypes == <<"nw", "n", "ne", "e", "se", "s", "sw", "w", "rotation">>
ResizeHandles == {"nw", "n", "ne", "e", "se", "s", "sw", "w"}

\* findElementAtPoint walking elementOrder from its first entry
RECURSIVE FindElementAtPointBottomFirst(_, _, _)
FindElementAtPointBottomFirst(point, els, order) ==
    IF order = <<>> THEN NoId
    ELSE LET elementId == order[1]
             rest == Tail(order)
         IN IF elementId \notin DOMAIN els THEN FindElementAtPointBottomFirst(point, els, rest)
            ELSE IF els[elementId].isDeleted THEN FindElementAtPointBottomFirst(point, els, rest)
            ELSE IF els[elementId].locked THEN FindElementAtPointBottomFirst(point, els, rest)
            ELSE IF HitTestElement(point, els[elementId], Threshold) THEN elementId
            ELSE FindElementAtPointBottomFirst(point, els, rest)

\* the topmost element hit, or NoId
RECURSIVE FindElementAtPoint(_, _, _)
FindElementAtPoint(point, els, order) ==
    IF order = <<>> THEN NoId
    ELSE LET elementId == order[Len(order)]
             rest == SubSeq(order, 1, Len(order) - 1)
         IN IF elementId \notin DOMAIN els THEN FindElementAtPoint(point, els, rest)
            ELSE IF els[elementId].isDeleted THEN FindElementAtPoint(point, els, rest)
            ELSE IF els[elementId].locked THEN FindElementAtPoint(point, els, rest)
            ELSE IF HitTestElement(point, els[elementId], Threshold) THEN elementId
            ELSE FindElementAtPoint(point, els, rest)

\* getHandlePositions, doubled: handle name -> position
UnrotatedHandle2(element, handleType) ==
    LET x == element.x
        y == element.y
        width == element.width
        height == element.height
    IN CASE handleType = "nw" -> Pt(2 * x, 2 * y)
         [] handleType = "n" -> Pt(2 * x + width, 2 * y)
         [] handleType = "ne" -> Pt(2 * (x + width), 2 * y)
         [] handleType = "e" -> Pt(2 * (x + width), 2 * y + height)
         [] handleType = "se" -> Pt(2 * (x + width), 2 * (y + height))
         [] handleType = "s" -> Pt(2 * x + width, 2 * (y + height))
         [] handleType = "sw" -> Pt(2 * x, 2 * (y + height))
         [] handleType = "w" -> Pt(2 * x, 2 * y + height)
         [] OTHER -> Pt(2 * x + width, 2 * (y - RotationHandleOffset))

GetHandlePosition2(element, handleType) ==
    IF element.rotation # 0
    THEN RotatePoint2(UnrotatedHandle2(element, handleType), ElementCenter2(element),
                      element.rotation)
    ELSE UnrotatedHandle2(element, handleType)

\* the hit radius of a handle: handleSize + 2
\* a variant with the handle's size alone as the radius
HandleHitThresholdNoSlack(handleSize) == handleSize
HandleHitThreshold(handleSize) == handleSize + 2

\* sqrt(dx^2 + dy^2) <= threshold, on doubled coordinates
HandleHit(point, element, handleType) ==
    LET h == GetHandlePosition2(element, handleType)
        dx == 2 * point.x - h.x
        dy == 2 * point.y - h.y
        threshold == HandleHitThreshold(HandleSize)
    IN dx * dx + dy * dy <= 4 * threshold * threshold

\* the first handle, in the Map's insertion order, within the threshold; "null" if none
FindHandleAtPoint(point, element) ==
    IF \E i \in DOMAIN HandleTypes : HandleHit(point, element, HandleTypes[i])
    THEN HandleTypes[CHOOSE i \in DOMAIN HandleTypes :
                        /\ HandleHit(point, element, HandleTypes[i])
                        /\ \A j \in 1..(i - 1) : ~HandleHit(point, element, HandleTypes[j])]
    ELSE "null"

\* findElementsIntersectingRect: ids in z-order
RECURSIVE FindElementsIntersectingRect(_, _, _, _)
FindElementsIntersectingRect(rectStart, rectEnd, els, order) ==
    IF order = <<>> THEN <<>>
    ELSE LET minX == Min(rectStart.x, rectEnd.x)
             minY == Min(rectStart.y, rectEnd.y)
             maxX == Max(rectStart.x, rectEnd.x)
             maxY == Max(rectStart.y, rectEnd.y)
             elementId == Head(order)
             rest == FindElementsIntersectingRect(rectStart, rectEnd, els, Tail(order))
         IN IF elementId \notin DOMAIN els THEN rest
            ELSE LET element == els[elementId]
                     intersects ==
                         ~(\/ element.x + element.width < minX
                           \/ element.x > maxX
                           \/ element.y + element.height < minY
                           \/ element.y > maxY)
                 IN IF element.isDeleted \/ element.locked THEN rest
                    ELSE IF intersects THEN <<elementId>> \o rest
                    ELSE rest

StartBoundsOf(element) ==
    [x |-> element.x, y |-> element.y, width |-> element.width, height |-> element.height,
     rotation |-> element.rotation]

\* the switch on the handle with the origin of the box never moved
ResizeBaseFromOrigin(sb, dx, dy, handle) ==
    [x |-> sb.x, y |-> sb.y,
     width |-> CASE handle \in {"nw", "sw", "w"} -> sb.width - dx
                 [] handle \in {"ne", "e", "se"} -> sb.width + dx
                 [] OTHER -> sb.width,
     height |-> CASE handle \in {"nw", "n", "ne"} -> sb.height - dy
                  [] handle \in {"se", "s", "sw"} -> sb.height + dy
                  [] OTHER -> sb.height]

\* performResize, the switch on the handle (lines 449-485)
ResizeBase(sb, dx, dy, handle) ==
    CASE handle = "nw" -> [x |-> sb.x + dx, y |-> sb.y + dy,
                           width |-> sb.width - dx, height |-> sb.height - dy]
      [] handle = "n" -> [x |-> sb.x, y |-> sb.y + dy,
                          width |-> sb.width, height |-> sb.height - dy]
      [] handle = "ne" -> [x |-> sb.x, y |-> sb.y + dy,
                           width |-> sb.width + dx, height |-> sb.height - dy]
      [] handle = "e" -> [x |-> sb.x, y |-> sb.y,
                          width |-> sb.width + dx, height |-> sb.height]
      [] handle = "se" -> [x |-> sb.x, y |-> sb.y,
                           width |-> sb.width + dx, height |-> sb.height + dy]
      [] handle = "s" -> [x |-> sb.x, y |-> sb.y,
                          width |-> sb.width, height |-> sb.height + dy]
      [] handle = "sw" -> [x |-> sb.x + dx, y |-> sb.y,
                           width |-> sb.width - dx, height |-> sb.height + dy]
      [] handle = "w" -> [x |-> sb.x + dx, y |-> sb.y,
                          width |-> sb.width - dx, height |-> sb.height]
      [] OTHER -> [x |-> sb.x, y |-> sb.y, width |-> sb.width, height |-> sb.height]

WidthChangedMore(sb, b) == Abs(b.width - sb.width) > Abs(b.height - sb.height)

\* performResize, the aspect-ratio branch (lines 488-505):
\* newWidth / (w0 / h0) = newWidth * h0 / w0, newHeight * (w0 / h0) = newHeight * w0 / h0
ResizeAspect(sb, b, handle) ==
    IF WidthChangedMore(sb, b)
    THEN LET newHeight == (b.width * sb.height) \div sb.width
         IN [b EXCEPT !.height = newHeight,
                      !.y = IF handle \in {"nw", "n", "ne"}
                            THEN sb.y + sb.height - newHeight ELSE b.y]
    ELSE LET newWidth == (b.height * sb.width) \div sb.height
         IN [b EXCEPT !.width = newWidth,
                      !.x = IF handle \in {"nw", "w", "sw"}
                            THEN sb.x + sb.width - newWidth ELSE b.x]

\* performResize, the minimum size (lines 508-509)
ResizeClamp(b) ==
    [b EXCEPT !.width = IF b.width < 1 THEN 1 ELSE b.width,
              !.height = IF b.height < 1 THEN 1 ELSE b.height]

\* the updates performResize passes to updateElement
PerformResize(sb, dx, dy, handle, maintainAspectRatio) ==
    ResizeClamp(IF maintainAspectRatio
                THEN ResizeAspect(sb, ResizeBase(sb, dx, dy, handle), handle)
                ELSE ResizeBase(sb, dx, dy, handle))

\* The quotients of the aspect-ratio branch are whole numbers (the events of the
\* model are those for which they are: a zero width or height at pointer-down,
\* whose quotient is NaN or Infinity in the code, is not among them).
ResizeExact(sb, dx, dy, handle, maintainAspectRatio) ==
    IF ~maintainAspectRatio THEN TRUE
    ELSE IF sb.width = 0 \/ sb.height = 0 THEN FALSE
    ELSE LET b == ResizeBase(sb, dx, dy, handle)
         IN IF WidthChangedMore(sb, b)
            THEN (b.width * sb.height) % Abs(sb.width) = 0
            ELSE (b.height * sb.width) % Abs(sb.height) = 0

(***************************************************************************)
(* performResize on every input.  A JavaScript number is modelled as a     *)
(* fraction, or NaN, or an infinity [inf |-> 1] or [inf |-> -1]; the       *)
(* operators below are the IEEE rules for /, *, - and < on them (the sign  *)
(* of a zero is not kept: the zeros that occur here are positive).         *)
(***************************************************************************)
NaN == [nan |-> TRUE]
Infinity(sign) == [inf |-> sign]
IsNaN(v) == "nan" \in DOMAIN v
IsInf(v) == "inf" \in DOMAIN v
Sign(n) == IF n < 0 THEN 0 - 1 ELSE 1

NumDiv(a, b) ==
    IF IsNaN(a) \/ IsNaN(b) THEN NaN
    ELSE IF IsInf(a) THEN (IF IsInf(b) THEN NaN ELSE Infinity(a.inf * Sign(b.n)))
    ELSE IF IsInf(b) THEN QInt(0)
    ELSE IF b.n = 0 THEN (IF a.n = 0 THEN NaN ELSE Infinity(Sign(a.n)))
    ELSE QDiv(a, b)

NumMul(a, b) ==
    IF IsNaN(a) \/ IsNaN(b) THEN NaN
    ELSE IF IsInf(a) /\ IsInf(b) THEN Infinity(a.inf * b.inf)
    ELSE IF IsInf(a) THEN (IF b.n = 0 THEN NaN ELSE Infinity(a.inf * Sign(b.n)))
    ELSE IF IsInf(b) THEN (IF a.n = 0 THEN NaN ELSE Infinity(b.inf * Sign(a.n)))
    ELSE QMul(a, b)

NumSub(a, b) ==
    IF IsNaN(a) \/ IsNaN(b) THEN NaN
    ELSE IF IsInf(a) /\ IsInf(b) THEN (IF a.inf = b.inf THEN NaN ELSE a)
    ELSE IF IsInf(a) THEN a
    ELSE IF IsInf(b) THEN Infinity(0 - b.inf)
    ELSE QSub(a, b)

NumLess(a, b) ==
    IF IsNaN(a) \/ IsNaN(b) THEN FALSE
    ELSE IF IsInf(a) THEN a.inf < 0 /\ ~(IsInf(b) /\ b.inf < 0)
    ELSE IF IsInf(b) THEN b.inf > 0
    ELSE QLess(a, b)

\* a === b on numbers: NaN equals nothing
NumEq(a, b) == ~IsNaN(a) /\ ~IsNaN(b) /\ a = b

\* performResize up to the minimum-size lines: the switch, then the aspect-ratio
\* branch (lines 445-505)
ResizeBeforeClamp(sb, dx, dy, handle, maintainAspectRatio) ==
    LET b == ResizeBase(sb, dx, dy, handle)
        plain == [x |-> QInt(b.x), y |-> QInt(b.y),
                  width |-> QInt(b.width), height |-> QInt(b.height)]
        aspectRatio == NumDiv(QInt(sb.width), QInt(sb.height))
        newHeight == NumDiv(QInt(b.width), aspectRatio)
        newWidth == NumMul(QInt(b.height), aspectRatio)
    IN IF ~maintainAspectRatio THEN plain
       ELSE IF WidthChangedMore(sb, b)
       THEN [plain EXCEPT !.height = newHeight,
                          !.y = IF handle \in {"nw", "n", "ne"}
                                THEN NumSub(QInt(sb.y + sb.height), newHeight)
                                ELSE plain.y]
       ELSE [plain EXCEPT !.width = newWidth,
                          !.x = IF handle \in {"nw", "w", "sw"}
                                THEN NumSub(QInt(sb.x + sb.width), newWidth)
                                ELSE plain.x]

\* if (newWidth < 1) newWidth = 1; if (newHeight < 1) newHeight = 1 (lines 508-509)
ClampToOne(v) == IF NumLess(v, QInt(1)) THEN QInt(1) ELSE v

\* the updates performResize passes to updateElement, as numbers
PerformResizeNum(sb, dx, dy, handle, maintainAspectRatio) ==
    LET u == ResizeBeforeClamp(sb, dx, dy, handle, maintainAspectRatio)
    IN [u EXCEPT !.width = ClampToOne(u.width), !.height = ClampToOne(u.height)]

\* Math.atan2(dy, dx) in quarter turns, for a vector along an axis (or zero)
AxisAligned(dy, dx) == dx = 0 \/ dy = 0
Atan2Q(dy, dx) ==
    CASE dy = 0 /\ dx >= 0 -> 0
      [] dy = 0 /\ dx < 0 -> 2
      [] dy > 0 -> 1
      [] OTHER -> 0 - 1

\* the move branch of onPointerMove (lines 349-357): every selected id that has
\* start bounds is moved
RECURSIVE MoveSelected(_, _, _, _, _)
MoveSelected(st, ids, bounds, dx, dy) ==
    IF ids = <<>> THEN st
    ELSE LET id == Head(ids)
             next == IF id \in DOMAIN bounds
                     THEN UpdateElement(st, id, [x |-> bounds[id].x + dx,
                                                 y |-> bounds[id].y + dy])
                     ELSE st
         IN MoveSelected(next, Tail(ids), bounds, dx, dy)

\* a variant of the selection policy that, without shift, always selects the
\* hit element alone
SelectionAfterHitCollapsing(st, clickedId, isShiftPressed) ==
    IF isShiftPressed
    THEN IF clickedId \in Range(st.selectedElementIds)
         THEN SelectElements(st, FilterSeq(st.selectedElementIds,
                                           Range(st.selectedElementIds) \ {clickedId}))
         ELSE AddToSelection(st, clickedId)
    ELSE SelectElement(st, clickedId)

\* the selection policy of onPointerDown on a hit (lines 273-289)
SelectionAfterHit(st, clickedId, isShiftPressed) ==
    IF isShiftPressed
    THEN IF clickedId \in Range(st.selectedElementIds)
         THEN SelectElements(st, FilterSeq(st.selectedElementIds,
                                           Range(st.selectedElementIds) \ {clickedId}))
         ELSE AddToSelection(st, clickedId)
    ELSE IF clickedId \notin Range(st.selectedElementIds)
         THEN SelectElement(st, clickedId)
         ELSE st

\* the ids onPointerDown snapshots on a hit (lines 224, 296): it iterates the
\* selectedElementIds it destructured before the selection policy ran
SnapshotIds(before, after) == before

\* Array.from(selectedElementIds)[0]: NoId stands for undefined
FirstSelected == IF Len(selectedElementIds) > 0 THEN selectedElementIds[1] ELSE NoId

(***************************************************************************)
(* SelectTool: the callbacks                                               *)
(***************************************************************************)
\* the handle of the sole selected element under the point (lines 227-264)
HandleUnderPoint(point) ==
    IF Len(selectedElementIds) = 1 /\ selectedElementIds[1] \in DOMAIN elements
    THEN FindHandleAtPoint(point, elements[selectedElementIds[1]])
    ELSE "null"

SelectToolOnPointerDown(point, shiftKey) ==
    LET handle == HandleUnderPoint(point)
        clickedId == FindElementAtPoint(point, elements, elementOrder)
        after == SelectionAfterHit(Store, clickedId, shiftKey)
        snap == { id \in Range(SnapshotIds(selectedElementIds, after.selectedElementIds)) :
                     id \in DOMAIN elements }
    IN IF handle # "null"
       THEN /\ activeHandle' = handle
            /\ dragStartPoint' = point
            /\ transformMode' = IF handle = "rotation" THEN "rotate" ELSE "resize"
            /\ elementStartBounds' =
                   MapSet(elementStartBounds, selectedElementIds[1],
                          StartBoundsOf(elements[selectedElementIds[1]]))
            /\ UNCHANGED <<dragCurrentPoint, storeVars>>
       ELSE IF clickedId # NoId
       THEN /\ SetStore(after)
            /\ transformMode' = "move"
            /\ dragStartPoint' = point
            /\ elementStartBounds' =
                   [id \in (DOMAIN elementStartBounds) \cup snap |->
                       IF id \in snap THEN StartBoundsOf(elements[id])
                       ELSE elementStartBounds[id]]
            /\ UNCHANGED <<activeHandle, dragCurrentPoint>>
       ELSE /\ SetStore(IF ~shiftKey THEN ClearSelection(Store) ELSE Store)
            /\ transformMode' = "drag-select"
            /\ dragStartPoint' = point
            /\ dragCurrentPoint' = point
            /\ elementStartBounds' = EmptyMap
            /\ UNCHANGED activeHandle

\* the rotate branch's new rotation (lines 377-390), in quarter turns
RotationAfterMove(element, startBounds, point) ==
    LET center == ElementCenter2(element)
        startAngle == Atan2Q(2 * dragStartPoint.y - center.y, 2 * dragStartPoint.x - center.x)
        currentAngle == Atan2Q(2 * point.y - center.y, 2 * point.x - center.x)
    IN startBounds.rotation + (currentAngle - startAngle)

\* the rotate branch writing the turned corner of the box as well
RotateUpdatesBaked(element, startBounds, point) ==
    LET corner == RotatePoint2(Pt(2 * element.x, 2 * element.y), ElementCenter2(element),
                               RotationAfterMove(element, startBounds, point))
    IN [rotation |-> RotationAfterMove(element, startBounds, point),
        x |-> corner.x \div 2, y |-> corner.y \div 2]

\* the updates the rotate branch passes to updateElement (lines 386-388)
RotateUpdates(element, startBounds, point) ==
    [rotation |-> RotationAfterMove(element, startBounds, point)]

\* The event is one the model computes exactly: whole quotients in an
\* aspect-locked resize that stays within MaxExtent, and pointer directions
\* along an axis in a rotation.
MoveInputExact(point, shiftKey) ==
    LET selectedId == FirstSelected
    IN /\ (transformMode = "resize" /\ activeHandle # "null"
             /\ selectedId \in DOMAIN elementStartBounds)
          => /\ ResizeExact(elementStartBounds[selectedId], point.x - dragStartPoint.x,
                            point.y - dragStartPoint.y, activeHandle, shiftKey)
             /\ LET b == PerformResize(elementStartBounds[selectedId],
                                       point.x - dragStartPoint.x,
                                       point.y - dragStartPoint.y, activeHandle, shiftKey)
                IN b.width <= MaxExtent /\ b.height <= MaxExtent
       /\ (transformMode = "rotate" /\ selectedId \in DOMAIN elements
             /\ selectedId \in DOMAIN elementStartBounds)
          => LET center == ElementCenter2(elements[selectedId])
             IN /\ AxisAligned(2 * dragStartPoint.y - center.y, 2 * dragStartPoint.x - center.x)
                /\ AxisAligned(2 * point.y - center.y, 2 * point.x - center.x)

\* the resize branch of onPointerMove (lines 359-369): the element resized is
\* the first of the selection as it is at the move
ResizeSelected(st, point, shiftKey) ==
    LET selectedId == IF Len(st.selectedElementIds) > 0 THEN st.selectedElementIds[1] ELSE NoId
    IN IF selectedId \in DOMAIN elementStartBounds
       THEN UpdateElement(st, selectedId,
                PerformResize(elementStartBounds[selectedId], point.x - dragStartPoint.x,
                              point.y - dragStartPoint.y, activeHandle, shiftKey))
       ELSE st

\* the rotate branch of onPointerMove (lines 370-392)
RotateSelected(st, point) ==
    LET selectedId == IF Len(st.selectedElementIds) > 0 THEN st.selectedElementIds[1] ELSE NoId
    IN IF selectedId \in DOMAIN st.elements /\ selectedId \in DOMAIN elementStartBounds
       THEN UpdateElement(st, selectedId,
                RotateUpdates(st.elements[selectedId], elementStartBounds[selectedId], point))
       ELSE st

\* the store after a pointer-move at the point in move, resize or rotate mode
\* (lines 343-392)
TransformMove(st, point, shiftKey) ==
    IF transformMode = "move"
    THEN MoveSelected(st, st.selectedElementIds, elementStartBounds,
                      point.x - dragStartPoint.x, point.y - dragStartPoint.y)
    ELSE IF transformMode = "resize" /\ activeHandle # "null"
    THEN ResizeSelected(st, point, shiftKey)
    ELSE IF transformMode = "rotate"
    THEN RotateSelected(st, point)
    ELSE st

\* a hover branch that hit-tests the elements only
HoverAfterMoveByHitOnly(st, point) ==
    SetHoveredElement(st, FindElementAtPoint(point, elements, elementOrder))

\* the hover branch of onPointerMove (lines 402-430)
HoverAfterMove(st, point) ==
    IF HandleUnderPoint(point) # "null"
    THEN SetHoveredElement(st, selectedElementIds[1])
    ELSE SetHoveredElement(st, FindElementAtPoint(point, elements, elementOrder))

\* the store after onPointerMove (lines 326-430)
StoreAfterSelectMove(st, point, shiftKey) ==
    IF transformMode # "null" /\ dragStartPoint # NoPoint
    THEN TransformMove(st, point, shiftKey)
    ELSE HoverAfterMove(st, point)

\* the tool's own fields after onPointerMove: the drag-select branch (lines
\* 393-397) moves the pending rectangle's corner
SelectFieldsAfterMove(point) ==
    IF transformMode = "drag-select" /\ dragStartPoint # NoPoint
    THEN /\ dragCurrentPoint' = point
         /\ UNCHANGED <<transformMode, activeHandle, dragStartPoint, elementStartBounds>>
    ELSE UNCHANGED selectVars

SelectToolOnPointerMove(point, shiftKey) ==
    /\ SetStore(StoreAfterSelectMove(Store, point, shiftKey))
    /\ SelectFieldsAfterMove(point)

\* the selection a finished drag-select leaves (lines 528-552)
SelectionAfterDragSelect(st, shiftKey) ==
    LET intersectingIds == FindElementsIntersectingRect(dragStartPoint, dragCurrentPoint,
                                                        st.elements, st.elementOrder)
    IN IF Len(intersectingIds) > 0
       THEN IF shiftKey
            THEN SelectElements(st, st.selectedElementIds \o intersectingIds)
            ELSE SelectElements(st, intersectingIds)
       ELSE st

\* a variant of the reset that keeps the start snapshots
EndTransformKeepingSnapshots ==
    /\ transformMode' = "null"
    /\ activeHandle' = "null"
    /\ dragStartPoint' = NoPoint
    /\ dragCurrentPoint' = NoPoint
    /\ UNCHANGED elementStartBounds

\* "End transform operation" (lines 555-559)
EndTransform ==
    /\ transformMode' = "null"
    /\ activeHandle' = "null"
    /\ dragStartPoint' = NoPoint
    /\ dragCurrentPoint' = NoPoint
    /\ elementStartBounds' = EmptyMap

SelectToolOnPointerUp(shiftKey) ==
    /\ SetStore(IF transformMode = "drag-select" /\ dragStartPoint # NoPoint
                     /\ dragCurrentPoint # NoPoint
                THEN SelectionAfterDragSelect(Store, shiftKey)
                ELSE Store)
    /\ EndTransform

\* onKeyDown (lines 568-595); "ctrl+a" stands for the key a with ctrlKey or metaKey
SelectToolOnKeyDown(st, key) ==
    LET afterDelete == IF key \in {"Delete", "Backspace"} /\ Len(st.selectedElementIds) > 0
                       THEN DeleteElements(st, st.selectedElementIds)
                       ELSE st
        afterEscape == IF key = "Escape" THEN ClearSelection(afterDelete) ELSE afterDelete
        allIds == FilterSeq(afterEscape.elementOrder,
                            { id \in DOMAIN afterEscape.elements :
                                 /\ ~afterEscape.elements[id].isDeleted
                                 /\ ~afterEscape.elements[id].locked })
    IN IF key = "ctrl+a" THEN SelectElements(afterEscape, allIds) ELSE afterEscape

(***************************************************************************)
(* The drawing tools.  The viewport is the default one and isPanning is    *)
(* false, so their early returns for panning are not taken; altKey is not  *)
(* held.                                                                   *)
(***************************************************************************)
IdleDraw == [isDrawing |-> FALSE, startPoint |-> NoPoint, previewElementId |-> NoId]
IdlePen == [isDrawing |-> FALSE, points |-> <<>>, previewElementId |-> NoId]
IdleText == [clickedPoint |-> NoPoint]

ArrowToolOnPointerDown(point) ==
    /\ arrowTool' = [isDrawing |-> TRUE, startPoint |-> point, previewElementId |-> nextId]
    /\ SetStore(AddElement(Store, CreateArrow(nextId, point.x, point.y, point.x, point.y)))
    /\ nextId' = nextId + 1

\* With shiftKey the code snaps the angle to a multiple of 45 degrees; a point
\* already on such a direction is its own snap, other points are not events of
\* the model.
ArrowInputExact(point, shiftKey) ==
    IF ~shiftKey \/ ~arrowTool.isDrawing THEN TRUE
    ELSE LET dx == point.x - arrowTool.startPoint.x
             dy == point.y - arrowTool.startPoint.y
         IN dx = 0 \/ dy = 0 \/ Abs(dx) = Abs(dy)

ArrowToolOnPointerMove(point) ==
    IF ~arrowTool.isDrawing \/ arrowTool.startPoint = NoPoint
          \/ arrowTool.previewElementId = NoId
    THEN UNCHANGED storeVars
    ELSE LET start == arrowTool.startPoint
         IN SetStore(UpdateElement(Store, arrowTool.previewElementId,
                [startX |-> start.x, startY |-> start.y, endX |-> point.x, endY |-> point.y,
                 x |-> Min(start.x, point.x), y |-> Min(start.y, point.y),
                 width |-> Abs(point.x - start.x), height |-> Abs(point.y - start.y)]))

\* length < 3, compared as squares
ArrowTooShort(element) ==
    LET dx == element.endX - element.startX
        dy == element.endY - element.startY
    IN dx * dx + dy * dy < 9

ArrowToolOnPointerUp ==
    IF ~arrowTool.isDrawing THEN UNCHANGED <<storeVars, arrowTool>>
    ELSE /\ SetStore(IF arrowTool.previewElementId \in DOMAIN elements
                          /\ elements[arrowTool.previewElementId].type = "arrow"
                          /\ ArrowTooShort(elements[arrowTool.previewElementId])
                     THEN DeleteElement(Store, arrowTool.previewElementId)
                     ELSE Store)
         /\ arrowTool' = IdleDraw

EllipseToolOnPointerDown(point) ==
    /\ ellipseTool' = [isDrawing |-> TRUE, startPoint |-> point, previewElementId |-> nextId]
    /\ SetStore(AddElement(Store, CreateEllipse(nextId, point.x, point.y, 0, 0)))
    /\ nextId' = nextId + 1

EllipseToolOnPointerMove(point, shiftKey) ==
    IF ~ellipseTool.isDrawing \/ ellipseTool.startPoint = NoPoint
          \/ ellipseTool.previewElementId = NoId
    THEN UNCHANGED storeVars
    ELSE LET start == ellipseTool.startPoint
             width == Abs(point.x - start.x)
             height == Abs(point.y - start.y)
             size == Max(width, height)
         IN SetStore(UpdateElement(Store, ellipseTool.previewElementId,
                [x |-> Min(start.x, point.x), y |-> Min(start.y, point.y),
                 width |-> IF shiftKey THEN size ELSE width,
                 height |-> IF shiftKey THEN size ELSE height]))

EllipseToolOnPointerUp ==
    IF ~ellipseTool.isDrawing THEN UNCHANGED <<storeVars, ellipseTool>>
    ELSE /\ SetStore(IF ellipseTool.previewElementId \in DOMAIN elements
                          /\ (elements[ellipseTool.previewElementId].width < 3
                              \/ elements[ellipseTool.previewElementId].height < 3)
                     THEN DeleteElement(Store, ellipseTool.previewElementId)
                     ELSE Store)
         /\ ellipseTool' = IdleDraw

PenToolOnPointerDown(point) ==
    /\ penTool' = [isDrawing |-> TRUE, points |-> << <<point.x, point.y>> >>,
                   previewElementId |-> nextId]
    /\ SetStore(AddElement(Store, CreateFreedraw(nextId, << <<point.x, point.y>> >>)))
    /\ nextId' = nextId + 1

PenToolOnPointerMove(point) ==
    IF ~penTool.isDrawing \/ penTool.previewElementId = NoId
    THEN UNCHANGED <<storeVars, penTool>>
    ELSE LET points == Append(penTool.points, <<point.x, point.y>>)
         IN /\ penTool' = [penTool EXCEPT !.points = points]
            /\ SetStore(UpdateElement(Store, penTool.previewElementId,
                   [points |-> points,
                    x |-> SeqMin(Xs(points)), y |-> SeqMin(Ys(points)),
                    width |-> SeqMax(Xs(points)) - SeqMin(Xs(points)),
                    height |-> SeqMax(Ys(points)) - SeqMin(Ys(points))]))

PenToolOnPointerUp ==
    IF ~penTool.isDrawing THEN UNCHANGED <<storeVars, penTool>>
    ELSE /\ SetStore(IF penTool.previewElementId # NoId /\ Len(penTool.points) < 2
                     THEN DeleteElement(Store, penTool.previewElementId)
                     ELSE Store)
         /\ penTool' = IdlePen

TextToolOnPointerDown(point) == textTool' = [clickedPoint |-> point]

\* distance < 5, compared as squares
IsClick(clickedPoint, point) ==
    LET dx == point.x - clickedPoint.x
        dy == point.y - clickedPoint.y
    IN dx * dx + dy * dy < 25

TextToolOnPointerUp(point) ==
    IF textTool.clickedPoint = NoPoint THEN UNCHANGED <<storeVars, textTool, nextId>>
    ELSE /\ IF IsClick(textTool.clickedPoint, point)
            THEN /\ SetStore(AddElement(Store, CreateText(nextId, textTool.clickedPoint.x,
                                                          textTool.clickedPoint.y)))
                 /\ nextId' = nextId + 1
            ELSE UNCHANGED <<storeVars, nextId>>
         /\ textTool' = IdleText

(***************************************************************************)
(* Canvas: the pointer and key handlers, which dispatch on activeTool      *)
(***************************************************************************)
HandlePointerDown(point, shiftKey) ==
    /\ ~pointerIsDown
    /\ gestures < MaxGestures
    /\ pointerIsDown' = TRUE
    /\ gestures' = gestures + 1
    /\ downElements' = elements
    /\ downTool' = activeTool
    /\ UNCHANGED <<wheels, isPanning, lastPanPosition, callVars, renderVars>>
    /\ CASE activeTool = "select" ->
              /\ SelectToolOnPointerDown(point, shiftKey)
              /\ UNCHANGED <<drawVars, nextId>>
         [] activeTool = "ellipse" ->
              /\ EllipseToolOnPointerDown(point)
              /\ UNCHANGED <<selectVars, arrowTool, penTool, textTool>>
         [] activeTool = "arrow" ->
              /\ ArrowToolOnPointerDown(point)
              /\ UNCHANGED <<selectVars, ellipseTool, penTool, textTool>>
         [] activeTool = "pen" ->
              /\ PenToolOnPointerDown(point)
              /\ UNCHANGED <<selectVars, arrowTool, ellipseTool, textTool>>
         [] OTHER ->
              /\ TextToolOnPointerDown(point)
              /\ UNCHANGED <<storeVars, selectVars, arrowTool, ellipseTool, penTool, nextId>>

\* The event is one the model computes exactly, and a pen stroke stays within
\* MaxPenPoints points.
PointerMoveInModel(point, shiftKey) ==
    CASE activeTool = "select" ->
             (transformMode # "null" /\ dragStartPoint # NoPoint)
                 => MoveInputExact(point, shiftKey)
      [] activeTool = "arrow" -> ArrowInputExact(point, shiftKey)
      [] activeTool = "pen" -> penTool.isDrawing => Len(penTool.points) < MaxPenPoints
      [] OTHER -> TRUE

HandlePointerMove(point, shiftKey) ==
    /\ PointerMoveInModel(point, shiftKey)
    /\ UNCHANGED <<pointerIsDown, gestures, downElements, downTool, wheels, isPanning,
                 lastPanPosition, callVars, renderVars>>
    /\ CASE activeTool = "select" ->
              /\ SelectToolOnPointerMove(point, shiftKey)
              /\ UNCHANGED <<drawVars, nextId>>
         [] activeTool = "ellipse" ->
              /\ EllipseToolOnPointerMove(point, shiftKey)
              /\ UNCHANGED <<selectVars, drawVars, nextId>>
         [] activeTool = "arrow" ->
              /\ ArrowToolOnPointerMove(point)
              /\ UNCHANGED <<selectVars, drawVars, nextId>>
         [] activeTool = "pen" ->
              /\ PenToolOnPointerMove(point)
              /\ UNCHANGED <<selectVars, arrowTool, ellipseTool, textTool, nextId>>
         [] OTHER -> UNCHANGED <<storeVars, selectVars, drawVars, nextId>>

HandlePointerUp(point, shiftKey) ==
    /\ pointerIsDown
    /\ pointerIsDown' = FALSE
    /\ downElements' = EmptyMap
    /\ downTool' = "null"
    /\ UNCHANGED <<gestures, wheels, isPanning, lastPanPosition, callVars, renderVars>>
    /\ CASE activeTool = "select" ->
              /\ SelectToolOnPointerUp(shiftKey)
              /\ UNCHANGED <<drawVars, nextId>>
         [] activeTool = "ellipse" ->
              /\ EllipseToolOnPointerUp
              /\ UNCHANGED <<selectVars, arrowTool, penTool, textTool, nextId>>
         [] activeTool = "arrow" ->
              /\ ArrowToolOnPointerUp
              /\ UNCHANGED <<selectVars, ellipseTool, penTool, textTool, nextId>>
         [] activeTool = "pen" ->
              /\ PenToolOnPointerUp
              /\ UNCHANGED <<selectVars, arrowTool, ellipseTool, textTool, nextId>>
         [] OTHER ->
              /\ TextToolOnPointerUp(point)
              /\ UNCHANGED <<selectVars, arrowTool, ellipseTool, penTool>>

\* useKeyboardShortcuts: the tool map and Escape
ToolOfKey(key) ==
    CASE key = "v" -> "select"
      [] key = "o" -> "ellipse"
      [] key = "a" -> "arrow"
      [] key = "p" -> "pen"
      [] key = "t" -> "text"
      [] key = "Escape" -> "select"
      [] OTHER -> "null"

ShortcutKeyDown(st, key) ==
    IF ToolOfKey(key) # "null" THEN SetActiveTool(st, ToolOfKey(key)) ELSE st

\* A key press reaches both window listeners: Canvas's, which calls the select
\* tool when the activeTool it rendered with is "select", and the shortcuts'.
KeyDown(key) ==
    /\ SetStore(ShortcutKeyDown(IF activeTool = "select"
                                THEN SelectToolOnKeyDown(Store, key)
                                ELSE Store, key))
    /\ UNCHANGED <<selectVars, drawVars, envVars, callVars, renderVars>>

SelectKeys == {"Delete", "Escape", "ctrl+a"}
Keys == SelectKeys \cup {"v", "o", "a", "p", "t"}

(***************************************************************************)
(* The whole application, from the store's initial state                   *)
(***************************************************************************)
IdleSelect ==
    /\ transformMode = "null"
    /\ activeHandle = "null"
    /\ dragStartPoint = NoPoint
    /\ dragCurrentPoint = NoPoint
    /\ elementStartBounds = EmptyMap

\* new DirtyRectManager() (dirty-rect.ts 17-19)
NewDirtyRectManager == [dirtyRegions |-> <<>>, isDirty |-> FALSE, fullRedrawNeeded |-> TRUE]
NotRendered == [none |-> TRUE]
BlankSurface == [calls |-> <<>>, painted |-> <<>>, overlay |-> <<>>]

\* Canvas before its first render
UnmountedCanvas ==
    /\ dirty = NewDirtyRectManager
    /\ rendered = NotRendered
    /\ effects = "none"
    /\ surface = BlankSurface

IdleCanvas ==
    /\ UnmountedCanvas
    /\ IdleSelect
    /\ arrowTool = IdleDraw
    /\ ellipseTool = IdleDraw
    /\ penTool = IdlePen
    /\ textTool = IdleText
    /\ pointerIsDown = FALSE
    /\ gestures = 0
    /\ downElements = EmptyMap
    /\ downTool = "null"
    /\ wheels = 0
    /\ isPanning = FALSE
    /\ lastPanPosition = NoPoint
    /\ result = <<>>

IdleTools ==
    /\ IdleCanvas
    /\ args = <<>>

EmptyStore ==
    /\ elements = EmptyMap
    /\ elementOrder = <<>>
    /\ selectedElementIds = <<>>
    /\ hoveredElementId = NoId
    /\ activeTool = "select"
    /\ viewport = DefaultViewport
    /\ nextId = 1

Init ==
    /\ elements = EmptyMap
    /\ elementOrder = <<>>
    /\ selectedElementIds = <<>>
    /\ hoveredElementId = NoId
    /\ activeTool = "select"
    /\ viewport = DefaultViewport
    /\ nextId = 1
    /\ IdleTools

PointerDown == \E point \in Points, shiftKey \in BOOLEAN : HandlePointerDown(point, shiftKey)
PointerMove == \E point \in Points, shiftKey \in BOOLEAN : HandlePointerMove(point, shiftKey)
PointerUp == \E point \in Points, shiftKey \in BOOLEAN : HandlePointerUp(point, shiftKey)
Key == \E key \in Keys : KeyDown(key)

Next == PointerDown \/ PointerMove \/ PointerUp \/ Key

Spec == Init /\ [][Next]_vars

(***************************************************************************)
(* The select tool at work on a drawn scene: an ellipse in (0,0)-(60,60)   *)
(* below an arrow from (60,60) to (90,90), with any selection of the two   *)
(***************************************************************************)
SceneElements ==
    (1 :> CreateEllipse(1, 0, 0, 60, 60)) @@ (2 :> CreateArrow(2, 60, 60, 90, 90))

SceneSelections == { <<>>, <<1>>, <<2>>, <<1, 2>>, <<2, 1>> }

InitSelect ==
    /\ elements = SceneElements
    /\ elementOrder = <<1, 2>>
    /\ selectedElementIds \in SceneSelections
    /\ hoveredElementId = NoId
    /\ activeTool = "select"
    /\ viewport = DefaultViewport
    /\ nextId = 3
    /\ IdleTools

SelectKey == \E key \in SelectKeys : KeyDown(key)

NextSelect == PointerDown \/ PointerMove \/ PointerUp \/ SelectKey

SpecSelect == InitSelect /\ [][NextSelect]_vars

(***************************************************************************)
(* The store's API called directly (the dev tools expose the store on      *)
(* window), with any ids                                                   *)
(***************************************************************************)
Ids == 1..MaxIds
IdLists == UNION { [1..n -> Ids] : n \in 0..2 }
ElementUpdates == {[x |-> 10], [x |-> 0]}

ApiAddElement(id) ==
    /\ Len(elementOrder) < MaxOrderLen
    /\ SetStore(AddElement(Store, CreateEllipse(id, 0, 0, 60, 60)))
    /\ UNCHANGED <<selectVars, drawVars, envVars, callVars, renderVars>>
ApiUpdateElement(id, updates) ==
    /\ SetStore(UpdateElement(Store, id, updates))
    /\ UNCHANGED <<selectVars, drawVars, envVars, callVars, renderVars>>
ApiDeleteElement(id) ==
    /\ SetStore(DeleteElement(Store, id))
    /\ UNCHANGED <<selectVars, drawVars, envVars, callVars, renderVars>>
ApiDeleteElements(ids) ==
    /\ SetStore(DeleteElements(Store, ids))
    /\ UNCHANGED <<selectVars, drawVars, envVars, callVars, renderVars>>
ApiClearElements ==
    /\ SetStore(ClearElements(Store))
    /\ UNCHANGED <<selectVars, drawVars, envVars, callVars, renderVars>>
ApiBringToFront(id) ==
    /\ SetStore(BringToFront(Store, id))
    /\ UNCHANGED <<selectVars, drawVars, envVars, callVars, renderVars>>
ApiSendToBack(id) ==
    /\ SetStore(SendToBack(Store, id))
    /\ UNCHANGED <<selectVars, drawVars, envVars, callVars, renderVars>>
ApiBringForward(id) ==
    /\ SetStore(BringForward(Store, id))
    /\ UNCHANGED <<selectVars, drawVars, envVars, callVars, renderVars>>
ApiSendBackward(id) ==
    /\ SetStore(SendBackward(Store, id))
    /\ UNCHANGED <<selectVars, drawVars, envVars, callVars, renderVars>>
ApiSelectElement(id) ==
    /\ SetStore(SelectElement(Store, id))
    /\ UNCHANGED <<selectVars, drawVars, envVars, callVars, renderVars>>
ApiAddToSelection(id) ==
    /\ SetStore(AddToSelection(Store, id))
    /\ UNCHANGED <<selectVars, drawVars, envVars, callVars, renderVars>>
ApiClearSelection ==
    /\ SetStore(ClearSelection(Store))
    /\ UNCHANGED <<selectVars, drawVars, envVars, callVars, renderVars>>
ApiSetHoveredElement(id) ==
    /\ SetStore(SetHoveredElement(Store, id))
    /\ UNCHANGED <<selectVars, drawVars, envVars, callVars, renderVars>>

\* the select tool's key handler, which reads and writes the store only
SelectToolKeyDown(key) ==
    /\ SetStore(SelectToolOnKeyDown(Store, key))
    /\ UNCHANGED <<selectVars, drawVars, envVars, callVars, renderVars>>

NextStore ==
    \/ \E id \in Ids : ApiAddElement(id)
    \/ \E id \in Ids, updates \in ElementUpdates : ApiUpdateElement(id, updates)
    \/ \E id \in Ids : ApiDeleteElement(id)
    \/ \E ids \in IdLists : ApiDeleteElements(ids)
    \/ ApiClearElements
    \/ \E id \in Ids : ApiBringToFront(id)
    \/ \E id \in Ids : ApiSendToBack(id)
    \/ \E id \in Ids : ApiBringForward(id)
    \/ \E id \in Ids : ApiSendBackward(id)
    \/ \E id \in Ids : ApiSelectElement(id)
    \/ \E id \in Ids : ApiAddToSelection(id)
    \/ ApiClearSelection
    \/ \E id \in Ids \cup {NoId} : ApiSetHoveredElement(id)
    \/ \E key \in {"Delete", "Backspace"} : SelectToolKeyDown(key)

SpecStore == Init /\ [][NextStore]_vars

(***************************************************************************)
(* Properties                                                              *)
(***************************************************************************)
NoDuplicates(s) == \A i, j \in DOMAIN s : s[i] = s[j] => i = j

Live(id) == id \in DOMAIN elements /\ ~elements[id].isDeleted

(***************************************************************************)
(* The viewport: coordinate conversion, the wheel handler of useViewport   *)
(* and the three viewport actions of the store.                            *)
(***************************************************************************)
ScreenToWorld(screenX, screenY, vp) ==
    [x |-> QDiv(QSub(screenX, vp.panX), vp.zoom),
     y |-> QDiv(QSub(screenY, vp.panY), vp.zoom)]

WorldToScreenPanFirst(worldX, worldY, vp) ==
    [x |-> QMul(QAdd(worldX, vp.panX), vp.zoom),
     y |-> QMul(QAdd(worldY, vp.panY), vp.zoom)]
WorldToScreen(worldX, worldY, vp) ==
    [x |-> QAdd(QMul(worldX, vp.zoom), vp.panX),
     y |-> QAdd(QMul(worldY, vp.zoom), vp.panY)]

\* newZoom of handleWheel: zoom * (1 + (-deltaY * 0.001)), clamped
WheelZoomUnclamped(zoom, deltaY) == QMul(zoom, QAdd(QInt(1), Q(0 - deltaY, 1000)))
WheelZoom(zoom, deltaY) ==
    QMax(MinZoom, QMin(MaxZoom, QMul(zoom, QAdd(QInt(1), Q(0 - deltaY, 1000)))))

\* the store after handleWheel: setZoom(newZoom), then setPan(newPanX, newPanY)
StoreAfterWheel(screenX, screenY, deltaY) ==
    LET worldBeforeZoom == ScreenToWorld(screenX, screenY, viewport)
        newZoom == WheelZoom(viewport.zoom, deltaY)
        newPanX == QSub(screenX, QMul(worldBeforeZoom.x, newZoom))
        newPanY == QSub(screenY, QMul(worldBeforeZoom.y, newZoom))
    IN SetPan(SetZoom(Store, newZoom), newPanX, newPanY)

MaxWheels == 2
ZoomInputs ==
    {Q(0 - 1, 1), Q(1, 20), Q(1, 2), QInt(1), Q(3, 2), QInt(12)}
PanInputs == {QInt(0 - 40), QInt(25)}
ScreenPoints == {[x |-> QInt(100), y |-> QInt(50)], [x |-> QInt(320), y |-> QInt(240)]}
WheelDeltas == {0 - 1000, 0 - 100, 100, 500}

HandleWheel(screenX, screenY, deltaY) ==
    /\ wheels < MaxWheels
    /\ wheels' = wheels + 1
    /\ SetStore(StoreAfterWheel(screenX, screenY, deltaY))
    /\ UNCHANGED <<selectVars, drawVars, callVars, renderVars>>
    /\ UNCHANGED <<pointerIsDown, gestures, downElements, downTool, isPanning, lastPanPosition,
                 nextId>>

Wheel == \E screen \in ScreenPoints, deltaY \in WheelDeltas : HandleWheel(screen.x, screen.y, deltaY)

ApiSetZoom ==
    \E zoom \in ZoomInputs :
        /\ SetStore(SetZoom(Store, zoom))
        /\ UNCHANGED <<selectVars, drawVars, envVars, callVars, renderVars>>

ApiSetPan ==
    \E panX \in PanInputs, panY \in PanInputs :
        /\ SetStore(SetPan(Store, panX, panY))
        /\ UNCHANGED <<selectVars, drawVars, envVars, callVars, renderVars>>

ApiResetViewport ==
    /\ SetStore(ResetViewport(Store))
    /\ UNCHANGED <<selectVars, drawVars, envVars, callVars, renderVars>>

NextViewport == Wheel \/ ApiSetZoom \/ ApiSetPan \/ ApiResetViewport

SpecViewport == Init /\ [][NextViewport]_vars

(***************************************************************************)
(* DirtyRectManager (lib/dirty-rect.ts): a manager is the record of its    *)
(* three fields, and each method is the manager (and the value) it leaves. *)
(***************************************************************************)
Region(x, y, width, height) == [x |-> x, y |-> y, width |-> width, height |-> height]

\* the padding markElementDirty adds by default
DirtyPadding == 10
\* the number of regions above which mergeRegions asks for a full redraw
MergeLimit == 10

MarkRegionDirty(d, x, y, width, height) ==
    [d EXCEPT !.dirtyRegions = Append(@, Region(x, y, width, height)), !.isDirty = TRUE]

\* getElementBounds: the unrotated box
GetElementBounds(element) ==
    [minX |-> element.x, minY |-> element.y,
     maxX |-> element.x + element.width, maxY |-> element.y + element.height]

MarkElementDirty(d, element, padding) ==
    LET bounds == GetElementBounds(element)
    IN MarkRegionDirty(d, bounds.minX - padding, bounds.minY - padding,
                       bounds.maxX - bounds.minX + padding * 2,
                       bounds.maxY - bounds.minY + padding * 2)

\* a markFullRedraw that does nothing
MarkFullRedrawIgnored(d) == d
MarkFullRedraw(d) == [d EXCEPT !.fullRedrawNeeded = TRUE, !.isDirty = TRUE]

NeedsRedraw(d) == d.isDirty \/ d.fullRedrawNeeded
NeedsFullRedraw(d) == d.fullRedrawNeeded

\* the private boundsIntersect of the manager, on two regions
RegionsOverlap(a, b) ==
    ~( \/ a.x + a.width < b.x
       \/ b.x + b.width < a.x
       \/ a.y + a.height < b.y
       \/ b.y + b.height < a.y )

\* [...regions].sort((a, b) => a.x - b.x): a stable sort by x
RECURSIVE InsertByX(_, _)
InsertByX(sorted, region) ==
    IF sorted = <<>> THEN <<region>>
    ELSE IF sorted[Len(sorted)].x <= region.x THEN Append(sorted, region)
    ELSE Append(InsertByX(SubSeq(sorted, 1, Len(sorted) - 1), region), sorted[Len(sorted)])

RECURSIVE SortByX(_)
SortByX(regions) ==
    IF regions = <<>> THEN <<>>
    ELSE InsertByX(SortByX(SubSeq(regions, 1, Len(regions) - 1)), regions[Len(regions)])

\* the loop of mergeRegions from entry i of the sorted list (lines 127-147)
RECURSIVE MergeFrom(_, _, _, _)
MergeFrom(sorted, i, current, merged) ==
    IF i > Len(sorted) THEN Append(merged, current)
    ELSE LET next == sorted[i]
         IN IF RegionsOverlap(current, next)
            THEN LET minX == Min(current.x, next.x)
                     minY == Min(current.y, next.y)
                     maxX == Max(current.x + current.width, next.x + next.width)
                     maxY == Max(current.y + current.height, next.y + next.height)
                 IN MergeFrom(sorted, i + 1, Region(minX, minY, maxX - minX, maxY - minY),
                              merged)
            ELSE MergeFrom(sorted, i + 1, next, Append(merged, current))

\* mergeRegions: the regions returned and the manager as the call leaves it
MergeRegions(d, regions) ==
    IF Len(regions) = 0 THEN [manager |-> d, regions |-> <<>>]
    ELSE IF Len(regions) = 1 THEN [manager |-> d, regions |-> regions]
    ELSE IF Len(regions) > MergeLimit
    THEN [manager |-> [d EXCEPT !.fullRedrawNeeded = TRUE], regions |-> <<>>]
    ELSE LET sorted == SortByX(regions)
         IN [manager |-> d, regions |-> MergeFrom(sorted, 2, sorted[1], <<>>)]

GetDirtyRegions(d) ==
    IF d.fullRedrawNeeded THEN [manager |-> d, regions |-> <<>>]
    ELSE MergeRegions(d, d.dirtyRegions)

IsElementInDirtyRegion(d, element) ==
    IF d.fullRedrawNeeded THEN TRUE
    ELSE LET bounds == GetElementBounds(element)
             box == Region(bounds.minX, bounds.minY, bounds.maxX - bounds.minX,
                           bounds.maxY - bounds.minY)
         IN \E i \in DOMAIN d.dirtyRegions : RegionsOverlap(box, d.dirtyRegions[i])

\* a clear that forgets the regions only
ClearRegionsOnly(d) == [d EXCEPT !.dirtyRegions = <<>>]
ClearDirty(d) == [dirtyRegions |-> <<>>, isDirty |-> FALSE, fullRedrawNeeded |-> FALSE]

(***************************************************************************)
(* Canvas: render(), the effects that ask for a redraw, and the loop that  *)
(* calls render() once per animation frame.  The canvas is CanvasSize CSS  *)
(* pixels and the device pixel ratio is 1.  A render() is the list of the  *)
(* context calls it makes; the surface keeps the element paints and the    *)
(* overlay that no later call has painted over or cleared.  The grid       *)
(* (gridEnabled) is off.                                                   *)
(***************************************************************************)
CanvasSize == [width |-> 640, height |-> 480]
WholeCanvas == Region(0, 0, CanvasSize.width, CanvasSize.height)

\* the store values render() closes over (its useCallback dependencies)
SceneOf(st) ==
    [viewport |-> st.viewport, elements |-> st.elements, elementOrder |-> st.elementOrder,
     selectedElementIds |-> st.selectedElementIds, hoveredElementId |-> st.hoveredElementId]

\* selectTool.getDragSelectionBox(); <<>> stands for null
DragSelectionBox ==
    IF transformMode = "drag-select" /\ dragStartPoint # NoPoint /\ dragCurrentPoint # NoPoint
    THEN LET minX == Min(dragStartPoint.x, dragCurrentPoint.x)
             minY == Min(dragStartPoint.y, dragCurrentPoint.y)
             maxX == Max(dragStartPoint.x, dragCurrentPoint.x)
             maxY == Max(dragStartPoint.y, dragCurrentPoint.y)
         IN <<Region(minX, minY, maxX - minX, maxY - minY)>>
    ELSE <<>>

GetViewportBounds(canvasWidth, canvasHeight, vp) ==
    LET topLeft == ScreenToWorld(QInt(0), QInt(0), vp)
        bottomRight == ScreenToWorld(QInt(canvasWidth), QInt(canvasHeight), vp)
    IN [minX |-> topLeft.x, minY |-> topLeft.y, maxX |-> bottomRight.x, maxY |-> bottomRight.y]

\* isElementVisible: boundsIntersect(getElementBounds(element), viewportBounds)
IsElementVisible(element, viewportBounds) ==
    LET a == GetElementBounds(element)
    IN ~( \/ QLess(QInt(a.maxX), viewportBounds.minX)
          \/ QLess(viewportBounds.maxX, QInt(a.minX))
          \/ QLess(QInt(a.maxY), viewportBounds.minY)
          \/ QLess(viewportBounds.maxY, QInt(a.minY)) )

ClearRectCall(region) == [op |-> "clearRect", region |-> region]
FillRectCall(region) == [op |-> "fillRect", region |-> region]
ElementCall(element, scene) ==
    [op |-> "renderElement", element |-> element, viewport |-> scene.viewport,
     isSelected |-> element.id \in Range(scene.selectedElementIds),
     isHovered |-> scene.hoveredElementId = element.id]
DragBoxCall(box, scene) == [op |-> "dragSelectionBox", box |-> box, viewport |-> scene.viewport]

\* the loop over elementOrder (lines 233-253)
RECURSIVE ElementCalls(_, _, _, _, _)
ElementCalls(order, scene, viewportBounds, needsFullRedraw, d) ==
    IF order = <<>> THEN <<>>
    ELSE LET elementId == Head(order)
             rest == ElementCalls(Tail(order), scene, viewportBounds, needsFullRedraw, d)
         IN IF elementId \notin DOMAIN scene.elements THEN rest
            ELSE IF scene.elements[elementId].isDeleted THEN rest
            ELSE IF ~IsElementVisible(scene.elements[elementId], viewportBounds) THEN rest
            ELSE IF ~needsFullRedraw /\ ~IsElementInDirtyRegion(d, scene.elements[elementId])
            THEN rest
            ELSE <<ElementCall(scene.elements[elementId], scene)>> \o rest

\* the box of a paint on the screen, as fractions
ScreenBox(element, vp) ==
    LET a == GetElementBounds(element)
        topLeft == WorldToScreen(QInt(a.minX), QInt(a.minY), vp)
        bottomRight == WorldToScreen(QInt(a.maxX), QInt(a.maxY), vp)
    IN [minX |-> topLeft.x, minY |-> topLeft.y, maxX |-> bottomRight.x, maxY |-> bottomRight.y]

\* a paint whose box the region overlaps loses pixels to a clearRect or fillRect
Touches(region, paint) ==
    LET b == IF paint.op = "renderElement"
             THEN ScreenBox(paint.element, paint.viewport)
             ELSE ScreenBox(paint.box, paint.viewport)
    IN ~( \/ QLess(b.maxX, QInt(region.x))
          \/ QLess(QInt(region.x + region.width), b.minX)
          \/ QLess(b.maxY, QInt(region.y))
          \/ QLess(QInt(region.y + region.height), b.minY) )

Untouched(paints, region) == SelectSeq(paints, LAMBDA paint : ~Touches(region, paint))

\* the surface after a list of context calls
RECURSIVE Draw(_, _)
Draw(surf, calls) ==
    IF calls = <<>> THEN surf
    ELSE LET call == Head(calls)
             after ==
                 CASE call.op \in {"clearRect", "fillRect"} ->
                          [surf EXCEPT !.painted = Untouched(@, call.region),
                                       !.overlay = Untouched(@, call.region)]
                   [] call.op = "renderElement" ->
                          [surf EXCEPT !.painted = Append(@, call)]
                   [] OTHER -> [surf EXCEPT !.overlay = <<call>>]
         IN Draw(after, Tail(calls))

\* render() (lines 179-279) with the scene it closes over: the manager and the
\* surface it leaves
Render(d, scene, box, surf) ==
    IF ~NeedsRedraw(d) THEN [dirty |-> d, surface |-> [surf EXCEPT !.calls = <<>>]]
    ELSE LET needsFullRedraw == NeedsFullRedraw(d)
             got == IF needsFullRedraw THEN [manager |-> d, regions |-> <<>>]
                    ELSE GetDirtyRegions(d)
             clears == IF needsFullRedraw THEN <<ClearRectCall(WholeCanvas)>>
                       ELSE [i \in 1..Len(got.regions) |-> ClearRectCall(got.regions[i])]
             viewportBounds == GetViewportBounds(CanvasSize.width, CanvasSize.height,
                                                 scene.viewport)
             calls == clears \o <<FillRectCall(WholeCanvas)>>
                      \o ElementCalls(scene.elementOrder, scene, viewportBounds,
                                      needsFullRedraw, got.manager)
                      \o (IF box # <<>> THEN <<DragBoxCall(box[1], scene)>> ELSE <<>>)
         IN [dirty |-> ClearDirty(got.manager),
             surface |-> Draw([surf EXCEPT !.calls = calls], calls)]

\* Canvas has rendered with the store as it is and its effects have run.  A
\* store update re-renders Canvas synchronously (useSyncExternalStore) and the
\* effects of that render run before the next event or animation frame.
CanvasSettled == effects = "none" /\ rendered = SceneOf(Store)

\* A render of Canvas after the store values it subscribes to have changed, and
\* the two effects that ask for a redraw (lines 165-174); render, animate and
\* handleResize are new callbacks, so the effect of lines 305-320 is due.
ReactCommit ==
    /\ effects = "none"
    /\ rendered # SceneOf(Store)
    /\ LET first == rendered = NotRendered
           selectionEffect ==
               IF first THEN TRUE
               ELSE <<rendered.viewport, rendered.selectedElementIds,
                      rendered.hoveredElementId>>
                        # <<viewport, selectedElementIds, hoveredElementId>>
           elementsEffect ==
               IF first THEN TRUE
               ELSE <<rendered.elements, rendered.elementOrder>> # <<elements, elementOrder>>
           d1 == IF selectionEffect THEN MarkFullRedraw(dirty) ELSE dirty
       IN dirty' = IF elementsEffect THEN MarkFullRedraw(d1) ELSE d1
    /\ rendered' = SceneOf(Store)
    /\ effects' = "init"
    /\ UNCHANGED <<storeVars, selectVars, drawVars, envVars, callVars, surface>>

\* the effect of lines 305-320: handleResize() sizes the canvas, which blanks
\* it (setupCanvas assigns canvas.width), and calls render(); the animation
\* loop is restarted with the new callback
InitEffect ==
    /\ effects = "init"
    /\ LET r == Render(dirty, rendered, DragSelectionBox, BlankSurface)
       IN dirty' = r.dirty /\ surface' = r.surface
    /\ effects' = "none"
    /\ UNCHANGED <<storeVars, selectVars, drawVars, envVars, callVars, rendered>>

\* an animation frame that also forgets the hover
AnimationFrameClearingHover ==
    /\ CanvasSettled
    /\ LET r == Render(dirty, rendered, DragSelectionBox, surface)
       IN dirty' = r.dirty /\ surface' = r.surface
    /\ hoveredElementId' = NoId
    /\ UNCHANGED <<elements, elementOrder, selectedElementIds, activeTool, viewport,
                   selectVars, drawVars, envVars, callVars, rendered, effects>>

\* animate (lines 284-287): one frame of the loop
AnimationFrame ==
    /\ CanvasSettled
    /\ LET r == Render(dirty, rendered, DragSelectionBox, surface)
       IN dirty' = r.dirty /\ surface' = r.surface
    /\ UNCHANGED <<storeVars, selectVars, drawVars, envVars, callVars, rendered, effects>>

RenderTick == AnimationFrame \/ InitEffect

(***************************************************************************)
(* The select tool on a mounted Canvas                                     *)
(***************************************************************************)
\* the scene of SpecSelect with the ellipse selected
InitRender ==
    /\ InitSelect
    /\ selectedElementIds = <<1>>

\* setPan called between two gestures
PanCanvas ==
    /\ transformMode = "null"
    /\ SetStore(SetPan(Store, QInt(25), QInt(25)))
    /\ UNCHANGED <<selectVars, drawVars, envVars, callVars, renderVars>>

NextRender ==
    \/ ReactCommit
    \/ InitEffect
    \/ AnimationFrame
    \/ CanvasSettled /\ PointerDown
    \/ CanvasSettled /\ PointerMove
    \/ CanvasSettled /\ PointerUp
    \/ CanvasSettled /\ SelectKey
    \/ CanvasSettled /\ PanCanvas

SpecRender == InitRender /\ [][NextRender]_vars

(***************************************************************************)
(* The manager's marking methods called on the mounted Canvas's manager,   *)
(* over a scene that does not change: rectangle 1 selected, rectangle 2    *)
(* hovered, rectangle 3 soft-deleted, rectangle 4 to the right of the      *)
(* canvas.                                                                 *)
(***************************************************************************)
\* regions marked between two drawing ticks
MaxDirtyRegions == 11
\* of which by markElementDirty
MaxElementMarks == 1

DirtySceneElements ==
    (1 :> CreateRectangle(1, 0, 0, 100, 100))
    @@ (2 :> CreateRectangle(2, 300, 300, 50, 50))
    @@ (3 :> [CreateRectangle(3, 200, 0, 50, 50) EXCEPT !.isDeleted = TRUE])
    @@ (4 :> CreateRectangle(4, 1000, 0, 50, 50))

InitDirty ==
    /\ elements = DirtySceneElements
    /\ elementOrder = <<1, 2, 3, 4>>
    /\ selectedElementIds = <<1>>
    /\ hoveredElementId = 2
    /\ activeTool = "select"
    /\ viewport = DefaultViewport
    /\ nextId = 5
    /\ IdleTools

ApiMarkRegionDirty ==
    /\ CanvasSettled
    /\ Len(dirty.dirtyRegions) < MaxDirtyRegions
    /\ dirty' = MarkRegionDirty(dirty, 0, 0, 50, 50)
    /\ UNCHANGED <<storeVars, selectVars, drawVars, envVars, callVars, rendered, effects,
                   surface>>

ApiMarkElementDirty ==
    /\ CanvasSettled
    /\ Len(dirty.dirtyRegions) < MaxDirtyRegions
    /\ dirty' = MarkElementDirty(dirty, elements[2], DirtyPadding)
    /\ Cardinality({ i \in DOMAIN dirty'.dirtyRegions :
                        dirty'.dirtyRegions[i] # Region(0, 0, 50, 50) }) <= MaxElementMarks
    /\ UNCHANGED <<storeVars, selectVars, drawVars, envVars, callVars, rendered, effects,
                   surface>>

ApiMarkFullRedraw ==
    /\ CanvasSettled
    /\ dirty' = MarkFullRedraw(dirty)
    /\ UNCHANGED <<storeVars, selectVars, drawVars, envVars, callVars, rendered, effects,
                   surface>>

NextDirty ==
    \/ ReactCommit
    \/ InitEffect
    \/ AnimationFrame
    \/ ApiMarkRegionDirty
    \/ ApiMarkElementDirty
    \/ ApiMarkFullRedraw

SpecDirty == InitDirty /\ [][NextDirty]_vars

(***************************************************************************)
(* hitTestElement at the centre of an element's box.  The elements are     *)
(* those the factories make, of even width and height (so that the centre  *)
(* has integer coordinates), turned by quarter turns and moved as the      *)
(* select tool moves an element: x and y updated, the rest kept.           *)
(***************************************************************************)
MaxQuarterTurns == 3
HitSizes == {0, 20, 60}
HitEnds == {Pt(0, 0), Pt(60, 20), Pt(0, 40), Pt(60, 0)}
HitStrokes ==
    {<< <<0, 0>> >>, << <<0, 0>>, <<60, 0>> >>, << <<0, 0>>, <<60, 0>>, <<60, 60>> >>}
HitMoves == {Pt(0, 0), Pt(40, 0)}

FactoryElements ==
    { CreateRectangle(1, 0, 0, w, h) : w \in HitSizes, h \in HitSizes }
      \cup { CreateEllipse(1, 0, 0, w, h) : w \in HitSizes, h \in HitSizes }
      \cup { CreateLine(1, s.x, s.y, e.x, e.y) : s \in HitEnds, e \in HitEnds }
      \cup { CreateArrow(1, s.x, s.y, e.x, e.y) : s \in HitEnds, e \in HitEnds }
      \cup { CreateFreedraw(1, points) : points \in HitStrokes }
      \cup { CreateText(1, 0, 0) }

HitElements ==
    { Merge(e, [x |-> e.x + m.x, y |-> e.y + m.y, rotation |-> q]) :
        e \in FactoryElements, m \in HitMoves, q \in 0..MaxQuarterTurns }

\* the centre of the unrotated box: (x + width / 2, y + height / 2)
BoxCenter(element) ==
    Pt(element.x + element.width \div 2, element.y + element.height \div 2)

InitHitTest ==
    /\ EmptyStore
    /\ IdleCanvas
    /\ args \in [element : HitElements]

CallHitTestElement ==
    /\ result = <<>>
    /\ result' = [hit |-> HitTestElement(BoxCenter(args.element), args.element, Threshold)]
    /\ UNCHANGED <<storeVars, selectVars, drawVars, envVars, renderVars, args>>

NextHitTest == CallHitTestElement

SpecHitTest == InitHitTest /\ [][NextHitTest]_vars

(***************************************************************************)
(* hitTestElement of a turned rectangle at points in and around its box    *)
(***************************************************************************)
ProbeSizes == {50, 100}
ProbePoints ==
    {Pt(50, 75), Pt(50, 25), Pt(75, 50), Pt(25, 25), Pt(110, 25), Pt(50, 0 - 25),
     Pt(100, 50), Pt(0, 0)}

InitHitProbe ==
    /\ EmptyStore
    /\ IdleCanvas
    /\ args \in [element : { [CreateRectangle(1, 0, 0, w, h) EXCEPT !.rotation = q] :
                                w \in ProbeSizes, h \in ProbeSizes, q \in 0..MaxQuarterTurns },
                 point : ProbePoints]

CallHitTestAtPoint ==
    /\ result = <<>>
    /\ result' = [hit |-> HitTestElement(args.point, args.element, Threshold),
                  inRectangle |-> IsPointInRectangle(args.point, args.element, Threshold)]
    /\ UNCHANGED <<storeVars, selectVars, drawVars, envVars, renderVars, args>>

NextHitProbe == CallHitTestAtPoint

SpecHitProbe == InitHitProbe /\ [][NextHitProbe]_vars

(***************************************************************************)
(* findElementAtPoint over stacks of overlapping rectangles, some locked   *)
(* or soft-deleted, and over a stack an element was just added to          *)
(***************************************************************************)
\* the rectangle of id: 100 x 100, each 40 further right than the one before
StackRectangle(id) == CreateRectangle(id, 40 * (id - 1), 0, 100, 100)
StackVariants(id) ==
    { StackRectangle(id), [StackRectangle(id) EXCEPT !.locked = TRUE],
      [StackRectangle(id) EXCEPT !.isDeleted = TRUE] }
\* z-orders of the stack; 3 is an id the map does not hold
StackOrders == { <<1, 2>>, <<2, 1>>, <<1, 3, 2>>, <<2, 1, 3>> }
StackPoints == { Pt(20, 50), Pt(60, 50), Pt(90, 50), Pt(130, 50), Pt(300, 50) }

InitFind ==
    /\ elements \in { [id \in {1, 2} |-> IF id = 1 THEN e1 ELSE e2] :
                         e1 \in StackVariants(1), e2 \in StackVariants(2) }
    /\ elementOrder \in StackOrders
    /\ selectedElementIds = <<>>
    /\ hoveredElementId = NoId
    /\ activeTool = "select"
    /\ viewport = DefaultViewport
    /\ nextId = 3
    /\ IdleTools

CallFindElementAtPoint(point) ==
    /\ args' = [point |-> point, added |-> NoId]
    /\ result' = [found |-> FindElementAtPoint(point, elements, elementOrder)]
    /\ UNCHANGED <<storeVars, selectVars, drawVars, envVars, renderVars>>

\* addElement, then findElementAtPoint on the store it leaves
AddThenFind(id, point) ==
    /\ Len(elementOrder) < MaxOrderLen
    /\ LET st == AddElement(Store, StackRectangle(id))
       IN /\ SetStore(st)
          /\ args' = [point |-> point, added |-> id]
          /\ result' = [found |-> FindElementAtPoint(point, st.elements, st.elementOrder)]
    /\ UNCHANGED <<selectVars, drawVars, envVars, renderVars>>

NextFind ==
    \/ \E point \in StackPoints : CallFindElementAtPoint(point)
    \/ \E id \in 1..3, point \in StackPoints : AddThenFind(id, point)

SpecFind == InitFind /\ [][NextFind]_vars

(***************************************************************************)
(* performResize as a function of its arguments: the start bounds of a     *)
(* selected element (an arrow along an axis has a zero width or height),   *)
(* the drag since pointer-down, the handle and the shift key.              *)
(***************************************************************************)
MaxDrag == 150
ResizeSizes == {0, 1, 50, 100}
ResizeDeltas == {0 - MaxDrag, 0 - 50, 0, 30, 50}
ResizeArgs ==
    [sb : [x : {0}, y : {0}, width : ResizeSizes, height : ResizeSizes],
     dx : ResizeDeltas, dy : ResizeDeltas, handle : ResizeHandles, shiftKey : BOOLEAN]

InitResize ==
    /\ EmptyStore
    /\ IdleCanvas
    /\ args \in ResizeArgs

CallPerformResize ==
    /\ result = <<>>
    /\ result' = PerformResizeNum(args.sb, args.dx, args.dy, args.handle, args.shiftKey)
    /\ UNCHANGED <<storeVars, selectVars, drawVars, envVars, renderVars, args>>

NextResize == CallPerformResize

SpecResize == InitResize /\ [][NextResize]_vars

\* C1: after any sequence of addElement, deleteElement, deleteElements,
\* clearElements and the four reorder operations, called with any ids,
\* elementOrder has no duplicate id and holds exactly the keys of elements.
C1_OrderMatchesElements ==
    /\ NoDuplicates(elementOrder)
    /\ Range(elementOrder) = DOMAIN elements

\* C2: in every reachable state every selected id, and the hovered id when there
\* is one, is a key of elements whose element is not soft-deleted.
C2_SelectionAndHoverLive ==
    /\ \A id \in Range(selectedElementIds) : Live(id)
    /\ hoveredElementId # NoId => Live(hoveredElementId)

\* C3: after deleteElement(id) or deleteElements(ids) no deleted id is selected
\* and the hovered id is not a deleted id.
C3_DeleteClearsSelectionAndHover ==
    [][/\ \A id \in Ids : ApiDeleteElement(id) =>
              /\ id \notin Range(selectedElementIds')
              /\ hoveredElementId' # id
       /\ \A ids \in IdLists : ApiDeleteElements(ids) =>
              /\ Range(ids) \cap Range(selectedElementIds') = {}
              /\ hoveredElementId' \notin Range(ids)]_vars

IsLineLike(element) == element.type \in {"line", "arrow"}

BoxIsEnvelope(element) ==
    /\ element.x = Min(element.startX, element.endX)
    /\ element.y = Min(element.startY, element.endY)
    /\ element.width = Abs(element.endX - element.startX)
    /\ element.height = Abs(element.endY - element.startY)

C5_MoveFollowsPointer ==
    [][\A point \in Points, shiftKey \in BOOLEAN :
          (HandlePointerMove(point, shiftKey) /\ activeTool = "select"
             /\ transformMode = "move")
          => \A id \in Range(selectedElementIds') \cap DOMAIN downElements :
                /\ id \in DOMAIN elements'
                /\ elements'[id].x = downElements[id].x + point.x - dragStartPoint.x
                /\ elements'[id].y = downElements[id].y + point.y - dragStartPoint.y]_vars

\* the pointer-down is resolved by the element hit test and finds an element
HitsElement(point) ==
    /\ HandleUnderPoint(point) = "null"
    /\ FindElementAtPoint(point, elements, elementOrder) # NoId

\* C6: when onPointerDown hits an element and enters move mode, the ids with a
\* start snapshot are exactly the ids selected after its selection policy.
C6_SnapshotsAreTheSelection ==
    [][\A point \in Points, shiftKey \in BOOLEAN :
          (HandlePointerDown(point, shiftKey) /\ activeTool = "select" /\ HitsElement(point))
          => /\ transformMode' = "move"
             /\ DOMAIN elementStartBounds' = Range(selectedElementIds')]_vars

WithinTen(point, element, handleType) ==
    LET h2 == GetHandlePosition2(element, handleType)
    IN (2 * point.x - h2.x) * (2 * point.x - h2.x)
         + (2 * point.y - h2.y) * (2 * point.y - h2.y) <= 4 * 10 * 10

\* C8: on a pointer-down with exactly one element selected and the point within
\* 10 world units of one of its 9 handles, the tool enters resize mode (rotate
\* mode for the rotation handle) with such a handle active and the selection
\* unchanged, whatever lies under the pointer; with no or several elements
\* selected no handle is tested: the tool enters move mode on an element hit and
\* drag-select mode otherwise, and the active handle stays as it was.
C8_HandleFirst ==
    [][\A point \in Points, shiftKey \in BOOLEAN :
          (HandlePointerDown(point, shiftKey) /\ activeTool = "select")
          => IF Len(selectedElementIds) = 1
             THEN LET element == elements[selectedElementIds[1]]
                  IN (\E handleType \in Range(HandleTypes) :
                          WithinTen(point, element, handleType))
                     => /\ activeHandle' \in Range(HandleTypes)
                        /\ WithinTen(point, element, activeHandle')
                        /\ transformMode' = IF activeHandle' = "rotation"
                                            THEN "rotate" ELSE "resize"
                        /\ selectedElementIds' = selectedElementIds
             ELSE /\ activeHandle' = activeHandle
                  /\ transformMode' =
                         IF FindElementAtPoint(point, elements, elementOrder) # NoId
                         THEN "move" ELSE "drag-select"]_vars

\* the ellipse is selected and the pointer went down at (68,66), 10 units from
\* its se handle and on the arrow above it: the tool resizes by that handle
C8_Witness ==
    /\ pointerIsDown
    /\ selectedElementIds = <<1>>
    /\ dragStartPoint = Pt(68, 66)
    /\ transformMode = "resize"
    /\ activeHandle = "se"

\* C9: in the whole application, whenever the pointer is up the select tool is
\* in Idle (transformMode null): no select-tool gesture outlives the release.
C9_IdleWhenPointerUp == ~pointerIsDown => transformMode = "null"

\* C10: after SelectTool.onPointerUp, in whatever mode it was called,
\* transformMode and activeHandle are null, both drag points are null and the
\* snapshot map is empty.
C10_PointerUpResets ==
    [][\A point \in Points, shiftKey \in BOOLEAN :
          (HandlePointerUp(point, shiftKey) /\ activeTool = "select")
          => /\ transformMode' = "null"
             /\ activeHandle' = "null"
             /\ dragStartPoint' = NoPoint
             /\ dragCurrentPoint' = NoPoint
             /\ elementStartBounds' = EmptyMap]_vars

\* a move gesture has ended: the arrow stays where it was dragged and the tool
\* is idle
C10_Witness ==
    /\ ~pointerIsDown
    /\ gestures > 0
    /\ IdleSelect
    /\ 2 \in DOMAIN elements
    /\ elements[2].x # 60

\* C11: every event of a pointer sequence (the pointer-down, the moves while the
\* button is held, the pointer-up) is handled by the tool that was active at its
\* pointer-down.
C11_OneToolPerSequence ==
    [][\A point \in Points, shiftKey \in BOOLEAN :
          ((pointerIsDown /\ HandlePointerMove(point, shiftKey))
              \/ HandlePointerUp(point, shiftKey))
          => activeTool = downTool]_vars

\* a number that is at least 1 (NaN is not)
AtLeastOne(v) == ~IsNaN(v) /\ ~NumLess(v, QInt(1))

\* where the integer resize of the gesture model is exact, it is performResize
ResizeModelsAgree ==
    result # <<>> /\ ResizeExact(args.sb, args.dx, args.dy, args.handle, args.shiftKey)
        => LET r == PerformResize(args.sb, args.dx, args.dy, args.handle, args.shiftKey)
           IN result = [x |-> QInt(r.x), y |-> QInt(r.y),
                        width |-> QInt(r.width), height |-> QInt(r.height)]

\* C12: for any handle, any pointer delta, either state of the shift key and any
\* start bounds with width >= 0 and height >= 0, the width and the height that a
\* resize writes are both at least 1.
C12_ResizeAtLeastOne ==
    result # <<>> => AtLeastOne(result.width) /\ AtLeastOne(result.height)

\* the minimum-size lines of performResize change neither dimension
ClampDoesNotApply(a) ==
    LET u == ResizeBeforeClamp(a.sb, a.dx, a.dy, a.handle, a.shiftKey)
    IN ~NumLess(u.width, QInt(1)) /\ ~NumLess(u.height, QInt(1))

\* width * h0 = height * w0
KeepsAspectRatio(a, r) ==
    NumEq(NumMul(r.width, QInt(a.sb.height)), NumMul(r.height, QInt(a.sb.width)))

\* the dimension that changed more is the one the handle and the drag give
LargerChangeDecides(a, r) ==
    LET b == ResizeBase(a.sb, a.dx, a.dy, a.handle)
    IN IF WidthChangedMore(a.sb, b) THEN r.width = QInt(b.width)
                                    ELSE r.height = QInt(b.height)

ScenarioD ==
    [sb |-> [x |-> 0, y |-> 0, width |-> 100, height |-> 100],
     dx |-> 50, dy |-> 30, handle |-> "se", shiftKey |-> TRUE]

\* C17: a resize with shift held that the minimum-size clamp leaves alone keeps
\* the aspect ratio of the start bounds (width * h0 = height * w0), the dimension
\* with the larger absolute change determining the other; handle se dragged by
\* (50, 30) on the box (0, 0, 100, 100) gives 150 by 150.
C17_AspectRatioKept ==
    result # <<>> /\ args.shiftKey /\ ClampDoesNotApply(args)
        => /\ KeepsAspectRatio(args, result)
           /\ LargerChangeDecides(args, result)
           /\ args = ScenarioD => result.width = QInt(150) /\ result.height = QInt(150)

\* the same for start bounds of positive width and height
AspectRatioKeptOfPositive ==
    args.sb.width > 0 /\ args.sb.height > 0 => C17_AspectRatioKept

ScenarioDResized ==
    result # <<>> /\ args = ScenarioD /\ result.width = QInt(150) /\ result.height = QInt(150)

ZoomInRange(vp) == ~QLess(vp.zoom, MinZoom) /\ ~QLess(MaxZoom, vp.zoom)

\* C13: the zoom is within [0.1, 10] in every reachable state: setZoom(z) stores
\* min(10, max(0.1, z)) and leaves the pan as it was, and setPan and
\* resetViewport leave the zoom within the range.
C13_ZoomClamped ==
    /\ ZoomInRange(viewport)
    /\ [][/\ ZoomInRange(viewport')
          /\ \A zoom \in ZoomInputs :
                Store' = SetZoom(Store, zoom)
                    => /\ viewport'.zoom = QMin(QInt(10), QMax(Q(1, 10), zoom))
                       /\ viewport'.panX = viewport.panX
                       /\ viewport'.panY = viewport.panY]_vars

\* setZoom has clamped a value from outside the range, at a pan other than (0, 0)
C13_Witness ==
    /\ viewport.zoom \in {MinZoom, MaxZoom}
    /\ viewport.panX # QInt(0)
    /\ wheels = 0

\* C14: after every wheel event, those whose new zoom is clamped included, the
\* world point that was under the cursor before the event is drawn at the
\* cursor's screen position by the updated viewport.
C14_ZoomToCursor ==
    [][\A screen \in ScreenPoints, deltaY \in WheelDeltas :
          HandleWheel(screen.x, screen.y, deltaY)
              => LET world == ScreenToWorld(screen.x, screen.y, viewport)
                 IN WorldToScreen(world.x, world.y, viewport') = screen]_vars

\* a second wheel event has been clamped at the maximum zoom and has moved the pan
C14_Witness ==
    /\ wheels >= 2
    /\ viewport.zoom = MaxZoom
    /\ viewport.panX \notin PanInputs \cup {QInt(0)}

\* C15: for the viewports the application reaches (zoom within [0.1, 10], any
\* pan) and every screen point, worldToScreen(screenToWorld(sx, sy)) = (sx, sy).
C15_ScreenRoundTrip ==
    \A screen \in ScreenPoints :
        LET world == ScreenToWorld(screen.x, screen.y, viewport)
        IN WorldToScreen(world.x, world.y, viewport) = screen

\* a viewport whose zoom is a proper fraction and whose pan is a fraction too
C15_Witness ==
    /\ viewport.zoom.d > 1
    /\ viewport.zoom.n > 1
    /\ viewport.panX.d > 1
    /\ viewport.panY.n < 0

\* the unlocked, non-deleted elements whose bounding box overlaps the rectangle
\* spanned by two points, touching edges included
OverlappedBy(rectStart, rectEnd, els) ==
    { id \in DOMAIN els :
        /\ ~els[id].isDeleted
        /\ ~els[id].locked
        /\ els[id].x <= Max(rectStart.x, rectEnd.x)
        /\ els[id].x + els[id].width >= Min(rectStart.x, rectEnd.x)
        /\ els[id].y <= Max(rectStart.y, rectEnd.y)
        /\ els[id].y + els[id].height >= Min(rectStart.y, rectEnd.y) }

\* Scenario C: three boxes, the first inside the rectangle (0,0)-(200,200), the
\* second partly, the third outside
ScenarioCElements ==
    (1 :> CreateEllipse(1, 10, 10, 20, 20)) @@ (2 :> CreateEllipse(2, 190, 190, 50, 50))
        @@ (3 :> CreateEllipse(3, 300, 300, 10, 10))

\* C16: a pointer-up in drag-select mode, with R spanned by the pointer-down point
\* and the last pointer-move point, makes the selection the set of unlocked,
\* non-deleted elements whose box overlaps R - united with the selection of that
\* moment when shift is held; in Scenario C the first two boxes are selected and
\* the third is not.
C16_DragSelectResult ==
    /\ FindElementsIntersectingRect(Pt(0, 0), Pt(200, 200), ScenarioCElements, <<1, 2, 3>>)
          = <<1, 2>>
    /\ [][\A point \in Points, shiftKey \in BOOLEAN :
            IF transformMode = "drag-select" /\ dragStartPoint # NoPoint
                 /\ dragCurrentPoint # NoPoint /\ activeTool = "select"
            THEN HandlePointerUp(point, shiftKey)
                   => LET hit == OverlappedBy(dragStartPoint, dragCurrentPoint, elements)
                      IN Range(selectedElementIds') =
                           IF shiftKey THEN Range(selectedElementIds) \cup hit ELSE hit
            ELSE TRUE]_vars

\* the same when the rectangle overlaps at least one such element
DragSelectResultWhenHit ==
    [][\A point \in Points, shiftKey \in BOOLEAN :
          IF transformMode = "drag-select" /\ dragStartPoint # NoPoint
               /\ dragCurrentPoint # NoPoint /\ activeTool = "select"
          THEN HandlePointerUp(point, shiftKey)
                 => LET hit == OverlappedBy(dragStartPoint, dragCurrentPoint, elements)
                    IN hit # {} => Range(selectedElementIds') =
                         IF shiftKey THEN Range(selectedElementIds) \cup hit ELSE hit
          ELSE TRUE]_vars

\* C18: updateElement with an id that is not a key of the elements map, and
\* bringToFront, sendToBack, bringForward and sendBackward with an id that is not
\* in elementOrder, leave the whole store state as it was.
C18_MissingIdIsNoOp ==
    [][\A id \in Ids :
          /\ \A updates \in ElementUpdates :
                ApiUpdateElement(id, updates) /\ id \notin DOMAIN elements
                    => UNCHANGED storeVars
          /\ (\/ ApiBringToFront(id) \/ ApiSendToBack(id)
              \/ ApiBringForward(id) \/ ApiSendBackward(id))
                /\ id \notin Range(elementOrder)
                    => UNCHANGED storeVars]_vars

\* element 1 has been updated and is selected and hovered; ids 2 and 3 are missing
C18_Witness ==
    /\ DOMAIN elements = {1}
    /\ elements[1].x = 10
    /\ elementOrder = <<1>>
    /\ selectedElementIds = <<1>>
    /\ hoveredElementId = 1

\* an element with a start snapshot of the running gesture is no longer in the store
TransformedElementRemoved ==
    /\ transformMode \in {"move", "resize", "rotate"}
    /\ \E id \in DOMAIN elementStartBounds : id \notin DOMAIN elements

\* C19: when the element being moved, resized or rotated has been removed from
\* the store during the gesture, the next pointer-move or pointer-up leaves the
\* select tool in Idle (transformMode null, snapshots cleared) and modifies no
\* element.
C19_GestureAbortsOnRemoval ==
    [][\A point \in Points, shiftKey \in BOOLEAN :
          /\ TransformedElementRemoved
          /\ activeTool = "select"
          /\ HandlePointerMove(point, shiftKey) \/ HandlePointerUp(point, shiftKey)
          => /\ transformMode' = "null"
             /\ elementStartBounds' = EmptyMap
             /\ elements' = elements]_vars

\* C20 as stated: for an element of any of the six types and any rotation, the
\* centre of its unrotated box is a hit.
C20_CenterIsHit == result # <<>> => result.hit

\* C20: for every rectangle, ellipse and text element and every rotation, the
\* centre of its unrotated box is a hit.
C20_CenterOfShapeIsHit ==
    result # <<>> /\ args.element.type \in {"rectangle", "ellipse", "text"} => result.hit

\* the centre of a rectangle of unequal sides, moved and turned by a quarter
\* turn, has been tested
C20_Witness ==
    /\ result # <<>>
    /\ result.hit
    /\ args.element.type = "rectangle"
    /\ args.element.rotation = 1
    /\ args.element.width = 60
    /\ args.element.height = 20
    /\ args.element.x = 40


\* Scenario B: the rectangle (0, 0, 100, 50) turned by 90 degrees, and the point
\* (50, 75)
ScenarioB ==
    [element |-> [CreateRectangle(1, 0, 0, 100, 50) EXCEPT !.rotation = 1],
     point |-> Pt(50, 75)]

\* C21: hitTestElement with threshold 5 reports the point (50, 75) as inside the
\* rectangle (0, 0, 100, 50) turned by 90 degrees about its centre.
C21_ScenarioBIsHit == result # <<>> /\ args = ScenarioB => result.hit

\* isPointInRectangle alone does report that point as inside
ScenarioBInRectangle == result # <<>> /\ args = ScenarioB => result.inRectangle

\* the list after is the list before with the entries of the removed ids taken
\* out and the others in the same order
RemovedFromOrder(before, after, removed) ==
    LET kept == { i \in DOMAIN before : before[i] \notin removed }
    IN /\ Len(after) = Cardinality(kept)
       /\ \A i \in kept : after[Cardinality({ j \in kept : j <= i })] = before[i]

\* C22: after the select tool has handled Delete or Backspace with a non-empty
\* selection, no previously selected id is a key of elements or a member of
\* elementOrder, the selection is empty, and the other elements and their
\* relative z-order are as before.
C22_DeleteRemovesSelection ==
    [][\A key \in {"Delete", "Backspace"} :
          SelectToolKeyDown(key) /\ selectedElementIds # <<>>
              => LET old == Range(selectedElementIds)
                 IN /\ old \cap DOMAIN elements' = {}
                    /\ old \cap Range(elementOrder') = {}
                    /\ selectedElementIds' = <<>>
                    /\ DOMAIN elements' = DOMAIN elements \ old
                    /\ \A id \in DOMAIN elements' : elements'[id] = elements[id]
                    /\ RemovedFromOrder(elementOrder, elementOrder', old)]_vars

\* elements 1 and 3 remain, in that order, with nothing selected; the hover id
\* still names element 2, which is gone
C22_Witness ==
    /\ DOMAIN elements = {1, 3}
    /\ elementOrder = <<1, 3>>
    /\ selectedElementIds = <<>>
    /\ hoveredElementId = 2

\* C25: findElementAtPoint returns the entry of elementOrder that is last
\* among those present in the map, not soft-deleted, not locked and hit by
\* the point, and none when there is no such entry; an element just added by
\* addElement is returned at every point where it is hit.
PickablePositions(point, els, order) ==
    { i \in DOMAIN order :
        /\ order[i] \in DOMAIN els
        /\ ~els[order[i]].isDeleted
        /\ ~els[order[i]].locked
        /\ HitTestElement(point, els[order[i]], Threshold) }

C25_TopmostIsFound ==
    result # <<>> =>
        LET pickable == PickablePositions(args.point, elements, elementOrder)
        IN /\ pickable = {} => result.found = NoId
           /\ pickable # {} =>
                \E i \in pickable : /\ \A j \in pickable : j <= i
                                     /\ result.found = elementOrder[i]
           /\ ( /\ args.added # NoId
                /\ HitTestElement(args.point, elements[args.added], Threshold) )
                => result.found = args.added

\* an element added over two others is found where all three overlap
C25_Witness ==
    /\ result # <<>>
    /\ args.added = 3
    /\ result.found = 3
    /\ Cardinality({ elementOrder[i] :
                        i \in PickablePositions(args.point, elements, elementOrder) }) = 3

\* the edges a handle names
EdgesNamed(handle) ==
    CASE handle = "nw" -> {"left", "top"}
      [] handle = "n" -> {"top"}
      [] handle = "ne" -> {"top", "right"}
      [] handle = "e" -> {"right"}
      [] handle = "se" -> {"right", "bottom"}
      [] handle = "s" -> {"bottom"}
      [] handle = "sw" -> {"left", "bottom"}
      [] handle = "w" -> {"left"}

\* the position of an edge of a box whose fields are fractions
EdgeAt(b, edge) ==
    CASE edge = "left" -> b.x
      [] edge = "right" -> QAdd(b.x, b.width)
      [] edge = "top" -> b.y
      [] edge = "bottom" -> QAdd(b.y, b.height)

BoxOfIntegers(sb) ==
    [x |-> QInt(sb.x), y |-> QInt(sb.y), width |-> QInt(sb.width), height |-> QInt(sb.height)]

\* C26: a resize without shift that the minimum-size clamp leaves alone moves
\* each edge the handle names by the drag delta (left and right by dx, top and
\* bottom by dy) and leaves every other edge of the box where the start bounds
\* have it.
C26_HandleMovesItsEdges ==
    result # <<>> /\ ~args.shiftKey /\ ClampDoesNotApply(args)
        => \A edge \in {"left", "right", "top", "bottom"} :
              LET before == EdgeAt(BoxOfIntegers(args.sb), edge)
                  delta == IF edge \in {"left", "right"} THEN args.dx ELSE args.dy
              IN EdgeAt(result, edge) =
                    IF edge \in EdgesNamed(args.handle) THEN QAdd(before, QInt(delta))
                                                        ELSE before

\* handle nw dragged by (30, -50) on a box of 100 by 100: left edge at 30, top
\* edge at -50, right and bottom edges still at 100
C26_Witness ==
    /\ result # <<>>
    /\ args = [sb |-> [x |-> 0, y |-> 0, width |-> 100, height |-> 100],
               dx |-> 30, dy |-> 0 - 50, handle |-> "nw", shiftKey |-> FALSE]
    /\ ClampDoesNotApply(args)
    /\ result = [x |-> QInt(30), y |-> QInt(0 - 50), width |-> QInt(70), height |-> QInt(150)]

\* the element differs from the one before in its rotation at most
SameButRotation(before, after) == after = [before EXCEPT !.rotation = after.rotation]

\* C27: a pointer-move in rotate mode leaves elementOrder and the selection as
\* they were, leaves every element but the first selected one as it was, and
\* changes at most the rotation field of that one: its x, y, width and height
\* are the stored ones.
C27_RotateWritesRotationOnly ==
    [][\A point \in Points, shiftKey \in BOOLEAN :
          transformMode = "rotate" /\ HandlePointerMove(point, shiftKey)
              => /\ elementOrder' = elementOrder
                 /\ selectedElementIds' = selectedElementIds
                 /\ DOMAIN elements' = DOMAIN elements
                 /\ \A id \in DOMAIN elements :
                       /\ SameButRotation(elements[id], elements'[id])
                       /\ elements'[id] # elements[id]
                             => selectedElementIds # <<>> /\ id = selectedElementIds[1]]_vars

\* the ellipse, the only element selected, has been turned by a quarter turn and
\* its box is where it was
C27_Witness ==
    /\ transformMode = "rotate"
    /\ selectedElementIds = <<1>>
    /\ elements[1].rotation = 1
    /\ SameButRotation(SceneElements[1], elements[1])

\* C23: a render tick (a frame of the animation loop, or the render() that
\* handleResize makes), whether it returns at once, clears the dirty regions or
\* clears the whole canvas, leaves elements, elementOrder, selectedElementIds,
\* hoveredElementId and viewport (and activeTool) as they were.
C23_TickLeavesStore == [][RenderTick => UNCHANGED storeVars]_vars

\* a tick has cleared a dirty region only, and the scene is the initial one
C23_Witness ==
    /\ surface.calls # <<>>
    /\ surface.calls[1] = ClearRectCall(Region(0, 0, 50, 50))
    /\ ~NeedsRedraw(dirty)
    /\ elements = DirtySceneElements
    /\ hoveredElementId = 2

\* the ids render() paints on a full redraw: those of elementOrder that are in
\* the map, not soft-deleted and within the viewport
VisibleIds(scene) ==
    SelectSeq(scene.elementOrder,
              LAMBDA id : /\ id \in DOMAIN scene.elements
                          /\ ~scene.elements[id].isDeleted
                          /\ IsElementVisible(scene.elements[id],
                                 GetViewportBounds(CanvasSize.width, CanvasSize.height,
                                                   scene.viewport)))

\* the canvas shows exactly the scene: each visible element once, in z-order,
\* as the scene has it, under the scene's viewport and with its decorations
ShowsScene(surf, scene) ==
    LET ids == VisibleIds(scene)
    IN /\ Len(surf.painted) = Len(ids)
       /\ \A i \in DOMAIN ids :
             /\ surf.painted[i].element = scene.elements[ids[i]]
             /\ surf.painted[i].viewport = scene.viewport
             /\ surf.painted[i].isSelected = (ids[i] \in Range(scene.selectedElementIds))
             /\ surf.painted[i].isHovered = (scene.hoveredElementId = ids[i])

\* C24: once the viewport, the selection, the hover id, the elements map or
\* elementOrder has changed, the next step is the render of Canvas whose effects
\* mark a full redraw; the render tick that follows does not skip, clears the
\* whole canvas and paints the scene as the store now has it, so that whenever
\* Canvas has settled the canvas shows the store's scene.
C24_ChangeIsRepainted ==
    [][/\ (effects = "none" /\ rendered # SceneOf(Store))
            => ReactCommit /\ NeedsFullRedraw(dirty')
       /\ effects = "init"
            => /\ InitEffect
               /\ surface'.calls # <<>>
               /\ surface'.calls[1] = ClearRectCall(WholeCanvas)
               /\ ShowsScene(surface', SceneOf(Store'))
       /\ CanvasSettled' => ShowsScene(surface', SceneOf(Store'))]_vars

\* the canvas has settled after a pan and a click that selected the arrow
C24_Witness ==
    /\ CanvasSettled
    /\ viewport.panX = QInt(25)
    /\ selectedElementIds = <<2>>
    /\ Len(surface.painted) = 2
    /\ surface.painted[2].isSelected
    /\ surface.painted[2].viewport = viewport

\* the step is one of the three marking methods of the manager
MarksDirty ==
    \/ dirty' = MarkFullRedraw(dirty)
    \/ \E region \in {Region(0, 0, 50, 50)} :
          dirty' = MarkRegionDirty(dirty, region.x, region.y, region.width, region.height)
    \/ \E id \in DOMAIN elements : dirty' = MarkElementDirty(dirty, elements[id], DirtyPadding)

\* C28: a full redraw is pending from the start until the first render tick; a
\* tick that finds needsRedraw() false makes no context call and leaves the
\* manager as it is; a tick that finds it true draws and leaves needsRedraw()
\* and needsFullRedraw() false, and they stay false until markRegionDirty,
\* markElementDirty or markFullRedraw is called.
C28_SkipAndClear ==
    /\ NeedsFullRedraw(dirty)
    /\ [][/\ (RenderTick /\ ~NeedsRedraw(dirty))
               => surface'.calls = <<>> /\ dirty' = dirty
          /\ (AnimationFrame /\ ~NeedsRedraw(dirty))
               => surface'.painted = surface.painted /\ surface'.overlay = surface.overlay
          /\ (RenderTick /\ NeedsRedraw(dirty))
               => /\ surface'.calls # <<>>
                  /\ ~NeedsRedraw(dirty')
                  /\ ~NeedsFullRedraw(dirty')
          /\ (~RenderTick /\ NeedsFullRedraw(dirty)) => NeedsFullRedraw(dirty')
          /\ (~NeedsRedraw(dirty) /\ NeedsRedraw(dirty')) => MarksDirty
          /\ (~NeedsFullRedraw(dirty) /\ NeedsFullRedraw(dirty'))
               => dirty' = MarkFullRedraw(dirty)]_vars

\* a frame has been skipped: nothing drawn, the canvas still showing the scene
C28_Witness ==
    /\ CanvasSettled
    /\ surface.calls = <<>>
    /\ ShowsScene(surface, SceneOf(Store))
    /\ ~NeedsRedraw(dirty)

ClearedRegions(calls) ==
    { calls[i].region : i \in { j \in DOMAIN calls : calls[j].op = "clearRect" } }

PaintedIds(calls) ==
    LET paints == SelectSeq(calls, LAMBDA call : call.op = "renderElement")
    IN [i \in DOMAIN paints |-> paints[i].element.id]

\* C29: a render tick without the full-redraw flag and with more than 10 dirty
\* regions clears the whole canvas and paints every element that is not
\* soft-deleted and intersects the viewport; with 10 regions or fewer it clears
\* the merged dirty regions and nothing else.
C29_ManyRegionsRedrawAll ==
    [][(AnimationFrame /\ NeedsRedraw(dirty) /\ ~NeedsFullRedraw(dirty))
          => IF Len(dirty.dirtyRegions) > MergeLimit
             THEN /\ WholeCanvas \in ClearedRegions(surface'.calls)
                  /\ PaintedIds(surface'.calls) = VisibleIds(rendered)
             ELSE ClearedRegions(surface'.calls)
                     = Range(MergeRegions(dirty, dirty.dirtyRegions).regions)]_vars

\* what such a tick does: with more than 10 regions it calls clearRect not at
\* all and paints every visible element; with 10 or fewer it calls clearRect on
\* the merged regions and paints the elements that a dirty region overlaps; on
\* either path it then fills the whole canvas with the background before it
\* paints, so the canvas shows the elements painted in this tick and no other.
PartialTickCalls ==
    [][(AnimationFrame /\ NeedsRedraw(dirty) /\ ~NeedsFullRedraw(dirty))
          => /\ IF Len(dirty.dirtyRegions) > MergeLimit
                THEN /\ ClearedRegions(surface'.calls) = {}
                     /\ PaintedIds(surface'.calls) = VisibleIds(rendered)
                ELSE /\ ClearedRegions(surface'.calls)
                            = Range(MergeRegions(dirty, dirty.dirtyRegions).regions)
                     /\ PaintedIds(surface'.calls)
                            = SelectSeq(VisibleIds(rendered),
                                        LAMBDA id : IsElementInDirtyRegion(dirty,
                                                                           elements[id]))
             /\ FillRectCall(WholeCanvas) \in Range(surface'.calls)
             /\ [i \in DOMAIN surface'.painted |-> surface'.painted[i].element.id]
                    = PaintedIds(surface'.calls)]_vars

\* C30: while a drag-select is in progress and a pointer-move has taken the
\* pending rectangle's corner away from the pointer-down point, after a frame of
\* the animation loop the canvas shows the overlay with the extent the rectangle
\* has now, and a tick that paints the overlay paints it after every element.
C30_OverlayFollowsPointer ==
    [][(AnimationFrame /\ DragSelectionBox # <<>> /\ dragCurrentPoint # dragStartPoint)
          => /\ surface'.overlay = <<DragBoxCall(DragSelectionBox[1], rendered)>>
             /\ surface'.calls # <<>>
                   => surface'.calls[Len(surface'.calls)].op = "dragSelectionBox"]_vars

\* every tick that paints the overlay paints it last, with the extent the
\* pending rectangle has at that tick
OverlayIsPaintedLast ==
    [][RenderTick
          => \A i \in DOMAIN surface'.calls :
                surface'.calls[i].op = "dragSelectionBox"
                    => /\ i = Len(surface'.calls)
                       /\ DragSelectionBox # <<>>
                       /\ surface'.calls[i].box = DragSelectionBox[1]]_vars

\* no pointer-move of a drag-select changes what Canvas subscribes to, so none
\* is followed by a render of Canvas and a redraw request
DragSelectMoveIsNotSeen ==
    [][(transformMode = "drag-select" /\ PointerMove)
          => CanvasSettled' /\ dirty' = dirty /\ ~NeedsRedraw(dirty')]_vars

\* the entries of the list other than id, in their order
Others(order, id) == FilterSeq(order, Range(order) \ {id})

\* what C40 says of the four reorder actions called with id on a list that holds it
ReorderAsSaid(id) ==
    /\ ApiBringToFront(id)
          => /\ elementOrder'[Len(elementOrder')] = id
             /\ elementOrder[Len(elementOrder)] = id => elementOrder' = elementOrder
    /\ ApiSendToBack(id)
          => /\ elementOrder'[1] = id
             /\ elementOrder[1] = id => elementOrder' = elementOrder
    /\ ApiBringForward(id)
          => IF elementOrder[Len(elementOrder)] = id THEN elementOrder' = elementOrder
             ELSE \E i \in 1..(Len(elementOrder) - 1) :
                     elementOrder[i] = id /\ elementOrder' = Swap(elementOrder, i, i + 1)
    /\ ApiSendBackward(id)
          => IF elementOrder[1] = id THEN elementOrder' = elementOrder
             ELSE \E i \in 2..Len(elementOrder) :
                     elementOrder[i] = id /\ elementOrder' = Swap(elementOrder, i, i - 1)
    /\ (\/ ApiBringToFront(id) \/ ApiSendToBack(id)
        \/ ApiBringForward(id) \/ ApiSendBackward(id))
          => /\ Others(elementOrder', id) = Others(elementOrder, id)
             /\ elements' = elements
             /\ selectedElementIds' = selectedElementIds

\* C40: for an id in elementOrder, bringToFront makes it the last entry and
\* sendToBack the first, bringForward and sendBackward swap it with the entry
\* above or below it, each keeps the other ids in their relative order and
\* leaves the elements map and the selection alone, and each changes nothing
\* when the id is already at that end of the list.
C40_Reorder ==
    [][\A id \in Ids : id \in Range(elementOrder) => ReorderAsSaid(id)]_vars

\* the same on the lists that hold no id twice
ReorderOfDistinct ==
    [][\A id \in Ids :
          id \in Range(elementOrder) /\ NoDuplicates(elementOrder) => ReorderAsSaid(id)]_vars

\* position + size = edge, on numbers that may be NaN or infinite
EndsAt(position, size, edge) ==
    /\ ~IsNaN(position) /\ ~IsInf(position)
    /\ ~IsNaN(size) /\ ~IsInf(size)
    /\ QAdd(position, size) = QInt(edge)

\* C36: a resize from a handle on the left edge (nw, sw, w) leaves the right
\* edge x + width where the start bounds have it, and one from a handle on the
\* top edge (nw, n, ne) leaves the bottom edge y + height there, for every drag
\* delta, also those past the opposite edge.
C36_OppositeEdgeStays ==
    result # <<>>
        => /\ args.handle \in {"nw", "sw", "w"}
                => EndsAt(result.x, result.width, args.sb.x + args.sb.width)
           /\ args.handle \in {"nw", "n", "ne"}
                => EndsAt(result.y, result.height, args.sb.y + args.sb.height)

\* the same for the resizes that the minimum-size lines leave alone, of start
\* bounds with a positive width and height
OppositeEdgeStaysUnclamped ==
    (ClampDoesNotApply(args) /\ args.sb.width > 0 /\ args.sb.height > 0)
        => C36_OppositeEdgeStays

\* the elements the canvas shows
ShownElements(surf) == { surf.painted[i].element : i \in DOMAIN surf.painted }

\* C39: after every render tick that draws, every element of elementOrder that
\* is not soft-deleted and whose box intersects the viewport is on the canvas,
\* whether the tick has repainted it or not.
C39_PartialRedrawKeepsElements ==
    [][(RenderTick /\ NeedsRedraw(dirty))
          => \A id \in Range(VisibleIds(rendered)) :
                rendered.elements[id] \in ShownElements(surface')]_vars

\* the same of the ticks that find the full-redraw flag set
FullRedrawShowsElements ==
    [][(RenderTick /\ NeedsFullRedraw(dirty))
          => \A id \in Range(VisibleIds(rendered)) :
                rendered.elements[id] \in ShownElements(surface')]_vars

\* a pointer-move of the resize in progress gives the element whose start
\* bounds were taken at pointer-down the box performResize computes from them
ResizeIsLive ==
    \A id \in DOMAIN elementStartBounds : \A point \in Points :
        LET updates == PerformResize(elementStartBounds[id], point.x - dragStartPoint.x,
                                     point.y - dragStartPoint.y, activeHandle, FALSE)
        IN (updates.width <= MaxExtent /\ updates.height <= MaxExtent)
              => ResizeSelected(Store, point, FALSE).elements[id] = Merge(elements[id], updates)

\* C34: Escape pressed during a resize leaves the select tool in resize mode
\* with its handle and start bounds, and the pointer-moves that follow still
\* resize the element.
C34_EscapeKeepsResizing ==
    [][(transformMode = "resize" /\ KeyDown("Escape"))
          => /\ transformMode' = "resize"
             /\ activeHandle' = activeHandle
             /\ elementStartBounds' = elementStartBounds
             /\ ResizeIsLive']_vars

\* Escape leaves the tool's own state as it is
EscapeKeepsResizeMode ==
    [][(transformMode = "resize" /\ KeyDown("Escape"))
          => /\ transformMode' = "resize"
             /\ activeHandle' = activeHandle
             /\ elementStartBounds' = elementStartBounds
             /\ selectedElementIds' = <<>>]_vars

\* from pointer-down on a handle until a key is pressed the moves resize
ResizeIsLiveWhileSelected ==
    (transformMode = "resize" /\ Len(selectedElementIds) = 1
        /\ selectedElementIds[1] \in DOMAIN elementStartBounds) => ResizeIsLive

\* a pointer-move in a transform leaves the hover id as it is
TransformMoveKeepsHover ==
    [][(transformMode # "null" /\ PointerMove) => hoveredElementId' = hoveredElementId]_vars

\* C33 as stated: with no transform in progress a pointer-move at any point
\* publishes the topmost unlocked, non-deleted element hit there, or null; in a
\* transform a pointer-move does not change the hover id.
C33_HoverIsTopmostHit ==
    /\ [](transformMode = "null"
             => \A point \in Points :
                   HoverAfterMove(Store, point).hoveredElementId
                       = FindElementAtPoint(point, elements, elementOrder))
    /\ TransformMoveKeepsHover

\* C33: with no transform in progress a pointer-move at any point publishes the
\* sole selected element when the point is on one of its handles, and else the
\* topmost unlocked, non-deleted element hit there, or null; in a transform a
\* pointer-move does not change the hover id.
C33_HoverIsHandleOrHit ==
    /\ [](transformMode = "null"
             => \A point \in Points :
                   HoverAfterMove(Store, point).hoveredElementId
                       = IF Len(selectedElementIds) = 1
                            /\ selectedElementIds[1] \in DOMAIN elements
                            /\ FindHandleAtPoint(point, elements[selectedElementIds[1]]) # "null"
                         THEN selectedElementIds[1]
                         ELSE FindElementAtPoint(point, elements, elementOrder))
    /\ TransformMoveKeepsHover

\* the ellipse, alone selected, is hovered, and one of its handles is at a
\* point where the topmost element hit is not the ellipse
C33_Witness ==
    /\ transformMode = "null"
    /\ selectedElementIds = <<1>>
    /\ hoveredElementId = 1
    /\ \E point \in Points :
          /\ HandleUnderPoint(point) # "null"
          /\ FindElementAtPoint(point, elements, elementOrder) # 1

(***************************************************************************)
(* Gestures of the select tool on a horizontal arrow from (30,30) to       *)
(* (60,30), whose box has height 0, above an ellipse in (0,0)-(60,60); no  *)
(* key is pressed.                                                         *)
(***************************************************************************)
FlatSceneElements ==
    (1 :> CreateArrow(1, 30, 30, 60, 30)) @@ (2 :> CreateEllipse(2, 0, 0, 60, 60))

InitGesture ==
    /\ elements = FlatSceneElements
    /\ elementOrder = <<2, 1>>
    /\ selectedElementIds \in { <<1>>, <<2>>, <<1, 2>> }
    /\ hoveredElementId = NoId
    /\ activeTool = "select"
    /\ viewport = DefaultViewport
    /\ nextId = 3
    /\ IdleTools

NextGesture == PointerDown \/ PointerMove \/ PointerUp

SpecGesture == InitGesture /\ [][NextGesture]_vars

Geometry(element) ==
    <<element.x, element.y, element.width, element.height, element.rotation>>

\* a move, resize or rotate gesture is in progress
InTransform == pointerIsDown /\ transformMode \in {"move", "resize", "rotate"}

\* a pointer-move at p gives the same elements whether or not a move at q came
\* before it (q = p: the move repeated), and a move at the pointer-down point
\* gives every element the geometry it had at pointer-down
GeometryFromStart ==
    \A p \in Points, s \in BOOLEAN :
        MoveInputExact(p, s)
            => /\ \A q \in Points, s2 \in BOOLEAN :
                     MoveInputExact(q, s2)
                         => TransformMove(TransformMove(Store, q, s2), p, s).elements
                                = TransformMove(Store, p, s).elements
               /\ p = dragStartPoint
                     => \A id \in DOMAIN elements :
                           Geometry(TransformMove(Store, p, s).elements[id])
                               = Geometry(downElements[id])

\* C38: during a move, resize or rotate gesture the geometry a pointer-move
\* gives depends on the state at pointer-down, the pointer-down point, the
\* current point and shift only: an intermediate move makes no difference,
\* a repeated move changes nothing, and a move back to the pointer-down point
\* restores the geometry of pointer-down.
C38_GestureGeometryFromStart == InTransform => GeometryFromStart

\* the same of the gestures whose elements are at least 1 wide and 1 high at
\* pointer-down
GeometryFromStartOfSized ==
    (InTransform /\ \A id \in DOMAIN elementStartBounds :
                        elementStartBounds[id].width >= 1 /\ elementStartBounds[id].height >= 1)
        => GeometryFromStart

(***************************************************************************)
(* The select tool on the drawn scene with elements that get locked and    *)
(* soft-deleted: the lock button of the properties panel locks and unlocks *)
(* the first selected element, and updateElement sets the isDeleted flag of *)
(* any element ("logically removed by setting the soft-delete flag").      *)
(***************************************************************************)
\* PropertiesPanel.toggleLock (lines 138-156); the panel is not clicked while
\* the pointer is down on the canvas
ToggleLock ==
    /\ ~pointerIsDown
    /\ Len(selectedElementIds) > 0
    /\ selectedElementIds[1] \in DOMAIN elements
    /\ SetStore(UpdateElement(Store, selectedElementIds[1],
                              [locked |-> ~elements[selectedElementIds[1]].locked]))
    /\ UNCHANGED <<selectVars, drawVars, envVars, callVars, renderVars>>

\* updateElement(id, { isDeleted: true }) between two gestures
SoftDelete ==
    \E id \in DOMAIN elements :
        /\ ~pointerIsDown
        /\ ~elements[id].isDeleted
        /\ ApiUpdateElement(id, [isDeleted |-> TRUE])

InitFlags ==
    /\ elements = SceneElements
    /\ elementOrder = <<1, 2>>
    /\ selectedElementIds = <<>>
    /\ hoveredElementId = NoId
    /\ activeTool = "select"
    /\ viewport = DefaultViewport
    /\ nextId = 3
    /\ IdleTools

NextFlags == PointerDown \/ PointerMove \/ PointerUp \/ SelectKey \/ ToggleLock \/ SoftDelete

SpecFlags == InitFlags /\ [][NextFlags]_vars

PointerEvent == PointerDown \/ PointerMove \/ PointerUp

\* the ids a full redraw of the scene paints
PaintedOnRedraw ==
    Range(PaintedIds(Render(NewDirtyRectManager, SceneOf(Store), DragSelectionBox,
                            BlankSurface).surface.calls))

\* a soft-deleted element is not returned by findElementAtPoint and not painted
DeletedIsUnseen ==
    \A id \in DOMAIN elements :
        elements[id].isDeleted
            => /\ \A point \in Points : FindElementAtPoint(point, elements, elementOrder) # id
               /\ id \notin PaintedOnRedraw

\* the step that sets the flag leaves the element in the map and in
\* elementOrder, where it stays until Delete removes it; no pointer-up of a
\* drag-select and no select-all adds it to the selection
DeletedStaysUnselected ==
    [][\A id \in DOMAIN elements :
          /\ (elements[id].isDeleted /\ ~KeyDown("Delete"))
                => /\ id \in DOMAIN elements'
                   /\ elements'[id].isDeleted
                   /\ id \in Range(elementOrder')
          /\ (~elements[id].isDeleted /\ SoftDelete) => id \in Range(elementOrder')
          /\ (elements[id].isDeleted /\ (PointerUp \/ KeyDown("ctrl+a")))
                => (id \in Range(selectedElementIds')
                       => id \in Range(selectedElementIds))]_vars

\* C31: a soft-deleted element stays in the elements map and in elementOrder,
\* is never returned by the select tool's hit test, never added to the
\* selection by a drag-select or by select-all, never painted, and no pointer
\* event of the select tool changes its x, y, width, height or rotation.
C31_DeletedIsInvisible ==
    /\ []DeletedIsUnseen
    /\ DeletedStaysUnselected
    /\ [][PointerEvent
             => \A id \in DOMAIN elements :
                   elements[id].isDeleted
                       => Geometry(elements'[id]) = Geometry(elements[id])]_vars

\* the parts of C31 other than the gestures
DeletedIsUnseenAndUnselected == []DeletedIsUnseen /\ DeletedStaysUnselected

\* C35: no pointer event of the select tool changes the x, y, width, height or
\* rotation of an element that is locked when the event arrives, selected or
\* not.
C35_LockedIsNotTransformed ==
    [][PointerEvent
          => \A id \in DOMAIN elements :
                elements[id].locked => Geometry(elements'[id]) = Geometry(elements[id])]_vars

\* the same of the locked elements that are not in the selection, which are
\* also never picked by a click
LockedUnselectedIsNotTransformed ==
    /\ [](\A id \in DOMAIN elements :
             elements[id].locked
                 => \A point \in Points : FindElementAtPoint(point, elements, elementOrder) # id)
    /\ [][PointerEvent
             => \A id \in DOMAIN elements :
                   (elements[id].locked /\ id \notin Range(selectedElementIds))
                       => Geometry(elements'[id]) = Geometry(elements[id])]_vars

\* the preview element of the drawing gesture in progress
DrawnId ==
    CASE downTool = "ellipse" -> ellipseTool.previewElementId
      [] downTool = "arrow" -> arrowTool.previewElementId
      [] downTool = "pen" -> penTool.previewElementId
      [] OTHER -> NoId

\* an ellipse less than 3 wide or high, an arrow shorter than 3, a path of
\* fewer than 2 points
Degenerate(element) ==
    CASE element.type = "ellipse" -> element.width < 3 \/ element.height < 3
      [] element.type = "arrow" ->
             (element.endX - element.startX) * (element.endX - element.startX)
                 + (element.endY - element.startY) * (element.endY - element.startY) < 3 * 3
      [] element.type = "freedraw" -> Len(element.points) < 2
      [] OTHER -> FALSE

\* after the pointer-up the element the gesture has drawn is not a degenerate
\* element of the map or an entry of elementOrder without an element
DrawnIsKeptOrRemoved ==
    /\ DrawnId \in DOMAIN elements' => ~Degenerate(elements'[DrawnId])
    /\ DrawnId \notin DOMAIN elements' => DrawnId \notin Range(elementOrder')

NoNegativeSize == \A id \in DOMAIN elements : elements[id].width >= 0 /\ elements[id].height >= 0

\* C32: after the pointer-up of a pointer sequence that the ellipse, arrow or
\* pen tool began, the element the sequence created is not in the store if it
\* is degenerate, neither in the elements map nor in elementOrder; and no
\* element ever has a negative width or height.
C32_NoDegenerateElement ==
    /\ [][(PointerUp /\ downTool \in {"ellipse", "arrow", "pen"}) => DrawnIsKeptOrRemoved]_vars
    /\ []NoNegativeSize

\* the same of the sequences whose pointer-up reaches the tool that began them
DegenerateIsDiscardedByItsTool ==
    /\ [][(PointerUp /\ downTool \in {"ellipse", "arrow", "pen"} /\ activeTool = downTool)
             => /\ DrawnIsKeptOrRemoved
                /\ (DrawnId \in DOMAIN elements /\ Degenerate(elements[DrawnId]))
                      => DrawnId \notin DOMAIN elements']_vars
    /\ []NoNegativeSize

(***************************************************************************)
(* Panning.  A pointer event on the canvas reaches two handlers: Canvas's, *)
(* which calls the active tool, and useViewport's, which pans.  The        *)
(* pointer-down listener of useViewport is on the canvas itself and runs   *)
(* before Canvas's handler (React listens at the root); its pointer-move   *)
(* and pointer-up listeners are on window and run after it.  The active    *)
(* tool is the select tool and the zoom is 1.                              *)
(***************************************************************************)
PanScreenPoints == { Pt(30, 30), Pt(60, 60), Pt(75, 75), Pt(0, 90) }
\* event.button: 0 the left button, 1 the middle button
Buttons == {0, 1}

\* the world point a tool computes from the event: screenToWorld of the event's
\* position on the canvas (the canvas is at the window's origin, so clientX and
\* clientY are screenX and screenY), for whole results
WorldPoint(screen) ==
    LET w == ScreenToWorld(QInt(screen.x), QInt(screen.y), viewport)
    IN Pt(w.x.n, w.y.n)

\* space stands for useViewport's isSpacePressed ref, which the space key sets
\* and clears between the pointer events
CanvasPointerDown(screen, shiftKey, button, space) ==
    LET shouldPan == IF button = 1 THEN TRUE ELSE button = 0 /\ space
    IN /\ activeTool = "select"
       /\ ~pointerIsDown
       /\ gestures < MaxGestures
       /\ pointerIsDown' = TRUE
       /\ gestures' = gestures + 1
       /\ downElements' = elements
       /\ downTool' = activeTool
       /\ isPanning' = IF shouldPan THEN TRUE ELSE isPanning
       /\ lastPanPosition' = IF shouldPan THEN screen ELSE lastPanPosition
       /\ SelectToolOnPointerDown(WorldPoint(screen), shiftKey)
       /\ UNCHANGED <<drawVars, wheels, nextId, callVars, renderVars>>

CanvasPointerMove(screen, shiftKey) ==
    LET point == WorldPoint(screen)
        afterTool == StoreAfterSelectMove(Store, point, shiftKey)
        pans == isPanning /\ lastPanPosition # NoPoint
    IN /\ activeTool = "select"
       /\ PointerMoveInModel(point, shiftKey)
       /\ SetStore(IF pans
                   THEN SetPan(afterTool,
                               QAdd(viewport.panX, QInt(screen.x - lastPanPosition.x)),
                               QAdd(viewport.panY, QInt(screen.y - lastPanPosition.y)))
                   ELSE afterTool)
       /\ SelectFieldsAfterMove(point)
       /\ lastPanPosition' = IF pans THEN screen ELSE lastPanPosition
       /\ UNCHANGED <<pointerIsDown, gestures, downElements, downTool, wheels, isPanning,
                      nextId, drawVars, callVars, renderVars>>

CanvasPointerUp(shiftKey) ==
    /\ activeTool = "select"
    /\ pointerIsDown
    /\ pointerIsDown' = FALSE
    /\ downElements' = EmptyMap
    /\ downTool' = "null"
    /\ SelectToolOnPointerUp(shiftKey)
    /\ isPanning' = FALSE
    /\ lastPanPosition' = IF isPanning THEN NoPoint ELSE lastPanPosition
    /\ UNCHANGED <<gestures, wheels, nextId, drawVars, callVars, renderVars>>

PanDown ==
    \E screen \in PanScreenPoints, shiftKey \in BOOLEAN, button \in Buttons, space \in BOOLEAN :
        CanvasPointerDown(screen, shiftKey, button, space)
PanMove == \E screen \in PanScreenPoints, shiftKey \in BOOLEAN : CanvasPointerMove(screen, shiftKey)
PanUp == \E shiftKey \in BOOLEAN : CanvasPointerUp(shiftKey)

InitPan ==
    /\ elements = SceneElements
    /\ elementOrder = <<1, 2>>
    /\ selectedElementIds \in { <<>>, <<1>>, <<1, 2>> }
    /\ hoveredElementId = NoId
    /\ activeTool = "select"
    /\ viewport = DefaultViewport
    /\ nextId = 3
    /\ IdleTools

NextPan == PanDown \/ PanMove \/ PanUp

SpecPan == InitPan /\ [][NextPan]_vars

SameGeometry == \A id \in DOMAIN elements : Geometry(elements'[id]) = Geometry(elements[id])

PanFollowsPointer ==
    [][/\ (PanMove /\ isPanning)
            => \E screen \in PanScreenPoints :
                  /\ lastPanPosition' = screen
                  /\ viewport'.panX = QAdd(viewport.panX, QInt(screen.x - lastPanPosition.x))
                  /\ viewport'.panY = QAdd(viewport.panY, QInt(screen.y - lastPanPosition.y))
                  /\ viewport'.zoom = viewport.zoom
       /\ PanUp => ~isPanning']_vars
============================================================================
